---- MODULE Spec2Model ----
(***************************************************************************)
(* The shared-storage service of kopachevvadym/fileshare: the message      *)
(* ledger shared/messages.json (lib/messages: src/unnamed/part_004), the   *)
(* attachment files of shared/, and the HTTP handlers that drive them      *)
(* (src/unnamed/part_009, src/unnamed/part_010).                           *)
(*                                                                         *)
(* Strings are sequences of one-character strings.  A JavaScript value is  *)
(* a record [t, s]: its typeof and, for a string, its characters.  A       *)
(* request runs in a Node process (proc): the synchronous part of a        *)
(* handler holds that process's only thread (cpu) from its first system    *)
(* call to its return or to its next await; processes interleave at every  *)
(* system call.                                                            *)
(***************************************************************************)
EXTENDS Integers, Sequences, FiniteSets

VARIABLES
  ledger,   \* content of shared/messages.json
  disk,     \* stored names of the attachment files present in shared/
  now,      \* Date.now(), in milliseconds
  pc,       \* pc[r]: where request r stands in its handler
  call,     \* call[r]: the operation of request r and its inputs
  loc,      \* loc[r]: the handler's local variables
  res,      \* res[r]: the HTTP response of request r
  cpu,      \* cpu[w]: the request whose synchronous code runs in process w
  nreq,     \* number of requests received and of changes made from outside
  hist,     \* history: the reference ledger built from the calls that succeeded
  lastPost, \* history: the id returned by the latest successful postText
  trail,    \* history: the latest ledger accesses, oldest first
  dirExists, \* the shared directory exists
  chat,     \* the state and the refs of the ChatInput component
  sends,    \* sends[c]: where call c of ChatInput.handleSend stands
  did       \* history: what the latest ChatInput handler did

\* The variables of the ChatInput component
chatVars == <<chat, sends, did>>

vars == <<ledger, disk, now, pc, call, loc, res, cpu, nreq, hist, lastPost, trail, dirExists,
          chat, sends, did>>

----------------------------------------------------------------------------
(* Bounds of the model *)

MaxReq == 3
MaxClock == 2

Slots == {1, 2}
Procs == {1, 2}
None == 0

----------------------------------------------------------------------------
(* Strings and JavaScript values *)

Undefined == [t |-> "undefined", s |-> <<>>]
Str(s) == [t |-> "string", s |-> s]
Num == [t |-> "number", s |-> <<>>]
Arr == [t |-> "array", s |-> <<>>]

WhiteSpace == {" "}
Digits == <<"0", "1", "2", "3", "4", "5", "6", "7", "8", "9">>

RECURSIVE TrimStart(_)
TrimStart(s) ==
  IF s # <<>> /\ Head(s) \in WhiteSpace THEN TrimStart(Tail(s)) ELSE s

RECURSIVE TrimEnd(_)
TrimEnd(s) ==
  IF s # <<>> /\ s[Len(s)] \in WhiteSpace
  THEN TrimEnd(SubSeq(s, 1, Len(s) - 1))
  ELSE s

\* String.prototype.trim
Trim(s) == TrimEnd(TrimStart(s))

\* typeof v === 'string' ? v : ''
Untrimmed(v) == IF v.t = "string" THEN v.s ELSE <<>>

\* typeof v === 'string' ? v.trim() : ''
TrimmedOf(v) == IF v.t = "string" THEN Trim(v.s) ELSE <<>>

\* String(n) of a non-negative integer
RECURSIVE DecimalString(_)
DecimalString(n) ==
  IF n < 10
  THEN <<Digits[n + 1]>>
  ELSE DecimalString(n \div 10) \o <<Digits[(n % 10) + 1]>>

DigitValue(c) == CHOOSE d \in 0..9 : Digits[d + 1] = c
IsDigit(c) == \E d \in 0..9 : Digits[d + 1] = c

RECURSIVE DecimalValue(_)
DecimalValue(s) ==
  IF s = <<>> THEN 0
  ELSE 10 * DecimalValue(SubSeq(s, 1, Len(s) - 1)) + DigitValue(s[Len(s)])

\* Number(id) of a route parameter: the empty or blank string is 0, a run of
\* digits its value, anything else NaN.
NumberOf(param) ==
  LET t == Trim(param) IN
  IF \A i \in 1..Len(t) : IsDigit(t[i])
  THEN [finite |-> TRUE, n |-> DecimalValue(t)]
  ELSE [finite |-> FALSE, n |-> 0]

\* s.includes(sub)
Includes(s, sub) ==
  \E i \in 1..(Len(s) - Len(sub) + 1) : SubSeq(s, i, i + Len(sub) - 1) = sub

\* s.startsWith(sub)
StartsWith(s, sub) == Len(s) >= Len(sub) /\ SubSeq(s, 1, Len(sub)) = sub

\* s.slice(0, n)
Slice0(s, n) == SubSeq(s, 1, IF Len(s) < n THEN Len(s) ELSE n)

----------------------------------------------------------------------------
(* The ledger file and JSON *)

\* A file content: kind "absent" (no such file), "blank" (empty or white space
\* only), "garbage" (not JSON), "json" (a JSON document: an array of messages,
\* or, with isArray FALSE, some other JSON value).
NoFile == [kind |-> "absent", isArray |-> FALSE, val |-> <<>>]
Blank == [kind |-> "blank", isArray |-> FALSE, val |-> <<>>]
Garbage == [kind |-> "garbage", isArray |-> FALSE, val |-> <<>>]
JsonObject == [kind |-> "json", isArray |-> FALSE, val |-> <<>>]

\* {...b}: what a had is lost
MergeOnly(a, b) == b

\* {...a, ...b}
Merge(a, b) ==
  [k \in DOMAIN a \cup DOMAIN b |-> IF k \in DOMAIN b THEN b[k] ELSE a[k]]

\* delete m[key]
DeleteKey(m, key) == [k \in DOMAIN m \ {key} |-> m[k]]

\* JSON.stringify leaves out a key whose value is undefined; of a message only
\* note can be (updateMessageById spreads {note: undefined}).
StringifyMessage(m) ==
  IF "note" \in DOMAIN m /\ m.note.t = "undefined" THEN DeleteKey(m, "note") ELSE m

\* JSON.stringify(messages, null, 2) + '\n'
JSONStringify(messages) ==
  [kind |-> "json", isArray |-> TRUE,
   val |-> [i \in 1..Len(messages) |-> StringifyMessage(messages[i])]]

\* JSON.parse(raw): throws on what is not JSON
JSONParse(raw) ==
  IF raw.kind = "json"
  THEN [threw |-> FALSE, isArray |-> raw.isArray, val |-> raw.val]
  ELSE [threw |-> TRUE, isArray |-> FALSE, val |-> <<>>]

\* A write that leaves out the last message of the array
WriteMessagesShort(messages) == JSONStringify(SubSeq(messages, 1, Len(messages) - 1))

\* writeMessages: the content written to messagesPath
WriteMessages(messages) == JSONStringify(messages)

\* A read that fails loudly: what is not a JSON array makes it throw
SafeReadMessagesThrows(file) ==
  IF file.kind = "absent" THEN [threw |-> FALSE, val |-> <<>>]
  ELSE IF file.kind = "blank" THEN [threw |-> FALSE, val |-> <<>>]
  ELSE LET parsed == JSONParse(file) IN
       IF parsed.threw \/ ~parsed.isArray THEN [threw |-> TRUE, val |-> <<>>]
       ELSE [threw |-> FALSE, val |-> parsed.val]

\* A read without the catch: what is not JSON makes it throw
SafeReadMessagesNoCatch(file) ==
  IF file.kind = "absent" THEN [threw |-> FALSE, val |-> <<>>]
  ELSE IF file.kind = "blank" THEN [threw |-> FALSE, val |-> <<>>]
  ELSE LET parsed == JSONParse(file) IN
       IF parsed.threw THEN [threw |-> TRUE, val |-> <<>>]
       ELSE [threw |-> FALSE, val |-> IF parsed.isArray THEN parsed.val ELSE <<>>]

\* safeReadMessages: [threw, val]
SafeReadMessages(file) ==
  IF file.kind = "absent" THEN [threw |-> FALSE, val |-> <<>>]
  ELSE IF file.kind = "blank" THEN [threw |-> FALSE, val |-> <<>>]
  ELSE LET parsed == JSONParse(file) IN
       IF parsed.threw THEN [threw |-> FALSE, val |-> <<>>]
       ELSE [threw |-> FALSE, val |-> IF parsed.isArray THEN parsed.val ELSE <<>>]

\* messages.findIndex(m => m.id === n), 0 for -1
FindIndex(messages, n) ==
  IF \E i \in 1..Len(messages) : messages[i].id = n
  THEN CHOOSE i \in 1..Len(messages) :
         /\ messages[i].id = n
         /\ \A j \in 1..(i - 1) : messages[j].id # n
  ELSE 0

\* messages.splice(idx): the message at idx and all that follow it are dropped
SpliceFrom(messages, idx) == SubSeq(messages, 1, idx - 1)

\* A splice that drops the last message instead of the one at idx
SpliceLast(messages, idx) == SubSeq(messages, 1, Len(messages) - 1)

\* messages.splice(idx, 1): what is left
Splice(messages, idx) ==
  SubSeq(messages, 1, idx - 1) \o SubSeq(messages, idx + 1, Len(messages))

----------------------------------------------------------------------------
(* Stored file names and paths *)

SafeChars ==
  {"a", "b", "c", "d", "e", "f", "g", "h", "i", "j", "k", "l", "m",
   "n", "o", "p", "q", "r", "s", "t", "u", "v", "w", "x", "y", "z",
   "A", "B", "C", "D", "E", "F", "G", "H", "I", "J", "K", "L", "M",
   "N", "O", "P", "Q", "R", "S", "T", "U", "V", "W", "X", "Y", "Z",
   "0", "1", "2", "3", "4", "5", "6", "7", "8", "9", ".", "_", "-"}

FileToken == <<"f", "i", "l", "e">>
LedgerName == <<"m", "e", "s", "s", "a", "g", "e", "s", ".", "j", "s", "o", "n">>
SharedDir == <<<<"s", "h", "a", "r", "e", "d">>>>
PartLimit == 120
NameLimit == 255

\* .replace(/[/\\]/g, '-')
ReplaceSeparators(s) ==
  [i \in 1..Len(s) |-> IF s[i] \in {"/", "\\"} THEN "-" ELSE s[i]]

\* .replace(/\.\.+/g, '.'): a run of two or more dots becomes one dot
\* (the two halves of the name are taken apart: a run of dots that spans
\* the cut keeps the dot of the second half)
RECURSIVE CollapseDots(_)
CollapseDots(s) ==
  IF Len(s) <= 1 THEN s
  ELSE LET m == Len(s) \div 2
           left == CollapseDots(SubSeq(s, 1, m))
           right == CollapseDots(SubSeq(s, m + 1, Len(s)))
       IN IF s[m] = "." /\ s[m + 1] = "."
          THEN SubSeq(left, 1, Len(left) - 1) \o right
          ELSE left \o right

\* .replace(/[^a-zA-Z0-9._-]+/g, '_'): a run of other characters becomes one '_'
\* (the two halves of the name are taken apart: a run that spans the cut
\* gives the one '_' of the second half)
RECURSIVE ReplaceUnsafe(_)
ReplaceUnsafe(s) ==
  IF s = <<>> THEN <<>>
  ELSE IF Len(s) = 1 THEN (IF s[1] \in SafeChars THEN s ELSE <<"_">>)
  ELSE LET m == Len(s) \div 2
           left == ReplaceUnsafe(SubSeq(s, 1, m))
           right == ReplaceUnsafe(SubSeq(s, m + 1, Len(s)))
       IN IF s[m] \notin SafeChars /\ s[m + 1] \notin SafeChars
          THEN SubSeq(left, 1, Len(left) - 1) \o right
          ELSE left \o right

\* A sanitizer that only cuts the name to its length
SanitizeBySliceOnly(name) ==
  LET base == Slice0(IF name = <<>> THEN FileToken ELSE name, PartLimit)
  IN IF base = <<>> THEN FileToken ELSE base

\* sanitizeFilenamePart
SanitizeFilenamePart(name) ==
  LET base == Slice0(ReplaceUnsafe(CollapseDots(ReplaceSeparators(
                IF name = <<>> THEN FileToken ELSE name))), PartLimit)
  IN IF base = <<>> THEN FileToken ELSE base

\* `${Date.now()}-${Math.random().toString(16).slice(2)}-${safeOriginal}`
StoredName(t, rnd, safeOriginal) ==
  DecimalString(t) \o <<"-">> \o rnd \o <<"-">> \o safeOriginal

\* encodeURIComponent: the characters a stored name can hold are left as they
\* are, a '%XX' escape replaces any other.
RECURSIVE EncodeURIComponent(_)
EncodeURIComponent(s) ==
  LET Enc(c) == IF c \in SafeChars THEN <<c>>
                ELSE IF c = " " THEN <<"%", "2", "0">>
                ELSE IF c = "/" THEN <<"%", "2", "F">>
                ELSE IF c = "\\" THEN <<"%", "5", "C">>
                ELSE <<"%", "?", "?">>
      m == Len(s) \div 2
  IN IF s = <<>> THEN <<>>
     ELSE IF Len(s) = 1 THEN Enc(s[1])
     ELSE EncodeURIComponent(SubSeq(s, 1, m)) \o EncodeURIComponent(SubSeq(s, m + 1, Len(s)))

\* isValidSharedFilename, of a JavaScript value
IsValidSharedFilename(v) ==
  IF v.t # "string" \/ v.s = <<>> THEN FALSE
  ELSE IF Includes(v.s, <<"/">>) \/ Includes(v.s, <<"\\">>) \/ Includes(v.s, <<".", ".">>)
  THEN FALSE
  ELSE IF StartsWith(v.s, <<".">>) THEN FALSE
  ELSE Len(v.s) <= NameLimit

\* A path is its sequence of segments.  s.split('/')
RECURSIVE SplitPath(_)
SplitPath(s) ==
  IF ~Includes(s, <<"/">>) THEN <<s>>
  ELSE LET i == CHOOSE k \in 1..Len(s) : s[k] = "/" /\ \A j \in 1..(k - 1) : s[j] # "/"
       IN <<SubSeq(s, 1, i - 1)>> \o SplitPath(SubSeq(s, i + 1, Len(s)))

\* Normalisation of path.join and path.resolve: '' and '.' are dropped, '..'
\* drops the segment before it.
RECURSIVE Normalize(_)
Normalize(segs) ==
  IF segs = <<>> THEN <<>>
  ELSE LET init == Normalize(SubSeq(segs, 1, Len(segs) - 1))
           last == segs[Len(segs)]
       IN IF last = <<>> \/ last = <<".">> THEN init
          ELSE IF last = <<".", ".">>
          THEN (IF init = <<>> THEN <<>> ELSE SubSeq(init, 1, Len(init) - 1))
          ELSE Append(init, last)

\* path.join(sharedDir, name)
PathJoin(dir, name) == Normalize(dir \o SplitPath(name))

\* getSharedFilePath without its two checks: the name is joined as it comes
GetSharedFilePathUnchecked(v) ==
  IF v.t # "string"
  THEN [threw |-> TRUE, code |-> "EINVAL_TEXT", path |-> <<>>]
  ELSE [threw |-> FALSE, code |-> "", path |-> PathJoin(SharedDir, v.s)]

\* getSharedFilePath: [threw, code, path]
GetSharedFilePath(v) ==
  IF ~IsValidSharedFilename(v)
  THEN [threw |-> TRUE, code |-> "EINVAL_TEXT", path |-> <<>>]
  ELSE LET filePath == PathJoin(SharedDir, v.s) IN
       IF ~(Len(filePath) > Len(SharedDir) /\ SubSeq(filePath, 1, Len(SharedDir)) = SharedDir)
       THEN [threw |-> TRUE, code |-> "EINVAL_TEXT", path |-> <<>>]
       ELSE [threw |-> FALSE, code |-> "", path |-> filePath]

\* The path names an entry of shared/
InShared(path) ==
  Len(path) = Len(SharedDir) + 1 /\ SubSeq(path, 1, Len(SharedDir)) = SharedDir

\* fs.existsSync(path)
ExistsSync(path, files, file) ==
  /\ InShared(path)
  /\ IF path[Len(path)] = LedgerName THEN file.kind # "absent" ELSE path[Len(path)] \in files

\* decodeURIComponent, of the escapes a file name can hold: [threw, s]; a '%'
\* that starts no escape makes it throw URIError.
RECURSIVE DecodeURIComponent(_)
\* fs.readdirSync(sharedDir), fs.readdir(sharedDir): [threw, names]; ENOENT
\* is thrown when the directory does not exist
ListFiles(files, file, exists) ==
  IF ~exists THEN [threw |-> TRUE, names |-> {}]
  ELSE [threw |-> FALSE,
        names |-> files \cup (IF file.kind # "absent" THEN {LedgerName} ELSE {})]

\* entries.filter(name => name !== 'messages.json')
NotLedger(names) == {name \in names : name # LedgerName}

DecodeURIComponent(s) ==
  LET Escape(a, b) ==
        IF <<a, b>> = <<"2", "F">> THEN <<"/">>
        ELSE IF <<a, b>> = <<"5", "C">> THEN <<"\\">>
        ELSE IF <<a, b>> = <<"2", "E">> THEN <<".">>
        ELSE IF <<a, b>> = <<"2", "0">> THEN <<" ">>
        ELSE IF <<a, b>> = <<"2", "5">> THEN <<"%">>
        ELSE <<>>
  IN IF ~Includes(s, <<"%">>) THEN [threw |-> FALSE, s |-> s]
     ELSE LET i == CHOOSE k \in 1..Len(s) : s[k] = "%" /\ \A j \in 1..(k - 1) : s[j] # "%"
          IN IF Len(s) < i + 2 \/ Escape(s[i + 1], s[i + 2]) = <<>>
             THEN [threw |-> TRUE, s |-> <<>>]
             ELSE LET rest == DecodeURIComponent(SubSeq(s, i + 3, Len(s)))
                  IN [threw |-> rest.threw,
                      s |-> SubSeq(s, 1, i - 1) \o Escape(s[i + 1], s[i + 2]) \o rest.s]

\* files.service isValidFilename, of a JavaScript value
IsValidFilename(v) ==
  IF v.t # "string" \/ v.s = <<>> THEN FALSE
  ELSE IF Includes(v.s, <<"/">>) \/ Includes(v.s, <<"\\">>) \/ Includes(v.s, <<".", ".">>)
  THEN FALSE
  ELSE IF StartsWith(v.s, <<".">>) THEN FALSE
  ELSE IF Len(v.s) > NameLimit THEN FALSE
  ELSE TRUE

\* files.service getFilePath: [threw, code, path]
GetFilePath(v) ==
  IF ~IsValidFilename(v)
  THEN [threw |-> TRUE, code |-> "EINVAL_FILENAME", path |-> <<>>]
  ELSE LET filePath == PathJoin(SharedDir, v.s) IN
       IF ~(Len(filePath) > Len(SharedDir) /\ SubSeq(filePath, 1, Len(SharedDir)) = SharedDir)
       THEN [threw |-> TRUE, code |-> "EINVAL_FILENAME", path |-> <<>>]
       ELSE [threw |-> FALSE, code |-> "", path |-> filePath]

\* isValidFilename of the route GET /shared/[filename]
RouteIsValidFilename(v) ==
  IF v.t # "string" \/ v.s = <<>> THEN FALSE
  ELSE IF Includes(v.s, <<"/">>) \/ Includes(v.s, <<"\\">>) \/ Includes(v.s, <<".", ".">>)
  THEN FALSE
  ELSE IF StartsWith(v.s, <<".">>) THEN FALSE
  ELSE IF Len(v.s) > NameLimit THEN FALSE
  ELSE TRUE

\* GET /shared/[filename], lines 26-37: [threw, code, path]; the route answers
\* 400 where the two functions above throw
RoutePath(v) ==
  IF ~RouteIsValidFilename(v)
  THEN [threw |-> TRUE, code |-> "EINVAL_FILENAME", path |-> <<>>]
  ELSE LET filePath == PathJoin(SharedDir, v.s) IN
       IF ~(Len(filePath) > Len(SharedDir) /\ SubSeq(filePath, 1, Len(SharedDir)) = SharedDir)
       THEN [threw |-> TRUE, code |-> "EINVAL_FILENAME", path |-> <<>>]
       ELSE [threw |-> FALSE, code |-> "", path |-> filePath]

\* multer.diskStorage filename: Date.now() + '-' + file.originalname
MulterName(t, originalname) == DecimalString(t) \o <<"-">> \o originalname

----------------------------------------------------------------------------
(* lib/messages: what each store function computes between its read of the  *)
(* ledger and its write                                                     *)

UploadedText == <<"U", "p", "l", "o", "a", "d", "e", "d", " ">>
FileWord == <<" ", "f", "i", "l", "e">>
FilesWord == <<" ", "f", "i", "l", "e", "s">>
SharedUrl == <<"/", "s", "h", "a", "r", "e", "d", "/">>

\* new Date().toISOString() renders the clock one to one: createdAt holds the
\* millisecond it renders.
ToISOString(t) == t

\* appendMessage, lines 138-142: the entry
AppendEntry(trimmed, t) ==
  [id |-> t, text |-> trimmed, createdAt |-> ToISOString(t)]

\* An entry whose text, when none is given, is derived from the attachments
AppendFilesEntryDerived(trimmed, files, t) ==
  [id |-> t,
   text |-> IF trimmed # <<>> THEN trimmed
            ELSE IF Len(files) = 1 THEN files[1].originalName
            ELSE DecimalString(Len(files)) \o FilesWord,
   createdAt |-> ToISOString(t),
   files |-> files]

\* appendMessageWithFiles, lines 161-166: the entry
AppendFilesEntry(trimmed, files, t) ==
  [id |-> t,
   text |-> IF trimmed # <<>> THEN trimmed
            ELSE UploadedText \o DecimalString(Len(files))
                   \o (IF Len(files) = 1 THEN FileWord ELSE FilesWord),
   createdAt |-> ToISOString(t),
   files |-> files]

\* deleteMessageById, lines 175-195, given the array read: [code, messages, removed]
DeletePlan(id, messages) ==
  LET numericId == NumberOf(id) IN
  IF ~numericId.finite
  THEN [code |-> "EINVAL_ID", messages |-> messages, removed |-> <<>>]
  ELSE LET idx == FindIndex(messages, numericId.n) IN
       IF idx = 0
       THEN [code |-> "ENOENT", messages |-> messages, removed |-> <<>>]
       ELSE [code |-> "", messages |-> Splice(messages, idx),
             removed |-> <<messages[idx]>>]

\* A check of the id and of the presence of a field only: the text is not
\* looked at
UpdateCheckNoText(id, text, note) ==
  IF ~NumberOf(id).finite THEN "EINVAL_ID"
  ELSE IF text.t = "undefined" /\ note.t = "undefined" THEN "EINVAL_TEXT"
  ELSE ""

\* A check that lets a blank text pass when a note comes with it
UpdateCheckLenient(id, text, note) ==
  IF ~NumberOf(id).finite THEN "EINVAL_ID"
  ELSE IF text.t = "undefined" /\ note.t = "undefined" THEN "EINVAL_TEXT"
  ELSE IF text.t # "undefined" /\ TrimmedOf(text) = <<>> /\ TrimmedOf(note) = <<>>
  THEN "EINVAL_TEXT"
  ELSE ""

\* updateMessageById, lines 199-239: the checks made before the ledger is read
UpdateCheck(id, text, note) ==
  IF ~NumberOf(id).finite THEN "EINVAL_ID"
  ELSE IF text.t = "undefined" /\ note.t = "undefined" THEN "EINVAL_TEXT"
  ELSE IF text.t # "undefined" /\ TrimmedOf(text) = <<>> THEN "EINVAL_TEXT"
  ELSE ""

\* An update that stores the note as it was trimmed, blank or not
UpdatePlanBlankNote(id, text, note, messages) ==
  LET numericId == NumberOf(id)
      hasText == text.t # "undefined"
      hasNote == note.t # "undefined"
      idx == FindIndex(messages, numericId.n)
      spreadText == IF hasText THEN Merge(messages[idx], [text |-> TrimmedOf(text)])
                    ELSE messages[idx]
      updated == IF hasNote THEN Merge(spreadText, [note |-> Str(TrimmedOf(note))])
                 ELSE spreadText
  IN IF idx = 0
     THEN [code |-> "ENOENT", messages |-> messages, updated |-> <<>>]
     ELSE [code |-> "", messages |-> [messages EXCEPT ![idx] = updated],
           updated |-> <<updated>>]

\* updateMessageById, lines 241-264, given the array read: [code, messages, updated]
UpdatePlan(id, text, note, messages) ==
  LET numericId == NumberOf(id)
      hasText == text.t # "undefined"
      hasNote == note.t # "undefined"
      trimmedNote == TrimmedOf(note)
      shouldUnsetNote == hasNote /\ trimmedNote = <<>>
      idx == FindIndex(messages, numericId.n)
      spreadText == IF hasText THEN Merge(messages[idx], [text |-> TrimmedOf(text)])
                    ELSE messages[idx]
      spreadNote == IF hasNote
                    THEN Merge(spreadText,
                               [note |-> IF shouldUnsetNote THEN Undefined
                                         ELSE Str(trimmedNote)])
                    ELSE spreadText
      updated == IF hasNote /\ shouldUnsetNote THEN DeleteKey(spreadNote, "note")
                 ELSE spreadNote
  IN IF idx = 0
     THEN [code |-> "ENOENT", messages |-> messages, updated |-> <<>>]
     ELSE [code |-> "", messages |-> [messages EXCEPT ![idx] = updated],
           updated |-> <<updated>>]

\* An attachment whose url is made of the name the client gave the file
AttachmentByOriginalName(file, filename) ==
  [originalName |-> file.name,
   filename |-> filename,
   size |-> file.size,
   mimetype |-> IF file.type = "" THEN "application/octet-stream" ELSE file.type,
   url |-> SharedUrl \o EncodeURIComponent(file.name)]

\* saveFormFile, lines 255-261: the attachment returned for a saved file
Attachment(file, filename) ==
  [originalName |-> file.name,
   filename |-> filename,
   size |-> file.size,
   mimetype |-> IF file.type = "" THEN "application/octet-stream" ELSE file.type,
   url |-> SharedUrl \o EncodeURIComponent(filename)]

\* POST upload, lines 284-288: the text handed to appendMessageWithFiles
DerivedText(clientText, uploaded) ==
  IF clientText.t = "string" /\ Trim(clientText.s) # <<>> THEN Trim(clientText.s)
  ELSE IF Len(uploaded) = 1 THEN uploaded[1].originalName
  ELSE DecimalString(Len(uploaded)) \o FilesWord

----------------------------------------------------------------------------
(* Requests and their inputs *)

NoCall ==
  [op |-> "none", proc |-> 1, text |-> Undefined, note |-> Undefined,
   id |-> <<>>, files |-> <<>>, arg |-> Undefined]
NoLocals ==
  [seen |-> <<>>, messages |-> <<>>, entry |-> <<>>, uploaded |-> <<>>, k |-> 0, warned |-> 0]
NoResponse == [status |-> 0, code |-> "", data |-> <<>>]

PostTexts == {Num, Str(<<" ">>), Str(<<" ", "a">>)}
UpdateTexts == {Undefined, Str(<<" ">>), Str(<<"c", " ">>)}
UpdateNotes == {Undefined, Str(<<" ">>), Str(<<"n">>)}
Captions == {Undefined, Str(<<"c", " ">>)}
IdParams == {<<"1">>, <<"2">>, <<"x">>}
NamedFile == [name |-> <<"x">>, size |-> 1, type |-> "text/plain"]
UnnamedFile == [name |-> <<>>, size |-> 0, type |-> ""]
FileLists == {<<>>, <<NamedFile>>, <<NamedFile, UnnamedFile>>}
\* Math.random().toString(16).slice(2)
Randoms == {<<"4">>, <<"8">>}

PostTextCalls(w) ==
  {[NoCall EXCEPT !.op = "postText", !.proc = w, !.text = t] : t \in PostTexts}
UploadCalls(w) ==
  {[NoCall EXCEPT !.op = "upload", !.proc = w, !.text = t, !.files = fs] :
     t \in Captions, fs \in FileLists}
UpdateCalls(w) ==
  {[NoCall EXCEPT !.op = "update", !.proc = w, !.id = i, !.text = t, !.note = n] :
     i \in IdParams, t \in UpdateTexts, n \in UpdateNotes}
DeleteCalls(w) ==
  {[NoCall EXCEPT !.op = "delete", !.proc = w, !.id = i] : i \in IdParams}
ListCalls(w) == {[NoCall EXCEPT !.op = "list", !.proc = w]}

\* A name of n characters
Long(n) == [i \in 1..n |-> "a"]

\* Candidate file names: values that are no string, the empty string, names
\* with a separator, with '..', with a leading dot, of 255 and of 256
\* characters, the name multer gives an upload of NamedFile, the ledger's
PercentFile == [name |-> <<"%">>, size |-> 1, type |-> "text/plain"]
StringNames ==
  {Str(<<>>), Str(<<"a", "/", "b">>), Str(<<"a", "\\", "b">>), Str(<<".", ".">>),
   Str(<<"a", ".", ".", "b">>), Str(<<".", ".", "/", "x">>), Str(<<".", "x">>),
   Str(Long(NameLimit)), Str(Long(NameLimit + 1)),
   Str(MulterName(1, NamedFile.name)), Str(LedgerName)}
NameArgs == {Undefined, Num} \cup StringNames
\* Route parameters (req.params.filename, the path segment as Express hands
\* it over, its escapes decoded): the names, names that hold a '%', the name
\* multer gives an upload of PercentFile
Params ==
  StringNames \cup {Str(<<"%", "2", "F", "x">>), Str(<<"%", "2", "E", "x">>), Str(<<"%">>),
                    Str(MulterName(1, PercentFile.name))}

ResolveCalls(w) ==
  {[NoCall EXCEPT !.op = o, !.proc = w, !.arg = a] :
     o \in {"resolve", "resolveFile", "deleteShared"}, a \in NameArgs}
RouteFileCalls(w) ==
  {[NoCall EXCEPT !.op = o, !.proc = w, !.arg = a] :
     o \in {"fileDelete", "fileGet"}, a \in Params}
FileUploadCalls(w) ==
  {[NoCall EXCEPT !.op = "fileUpload", !.proc = w, !.files = fs] :
     fs \in {<<>>, <<NamedFile>>, <<PercentFile>>}}
\* Uploads of files of any name, with any caption
PaddedFile == [name |-> <<" ", "x">>, size |-> 1, type |-> "text/plain"]
BlankFile == [name |-> <<" ">>, size |-> 1, type |-> "text/plain"]
CaptionedCalls(w) ==
  {[NoCall EXCEPT !.op = "upload", !.proc = w, !.text = t, !.files = fs] :
     t \in {Undefined, Str(<<" ">>), Str(<<"c", " ">>)},
     fs \in {<<>>, <<NamedFile>>, <<UnnamedFile>>, <<PaddedFile>>, <<BlankFile>>,
             <<NamedFile, UnnamedFile>>}}

\* Calls of appendMessageWithFiles({text, files}): files is an array of
\* attachments (arg is Arr) or no array at all
StoredAttachments ==
  LET a == Attachment(NamedFile, StoredName(1, <<"4">>, SanitizeFilenamePart(NamedFile.name)))
      b == Attachment(UnnamedFile, StoredName(1, <<"8">>, SanitizeFilenamePart(UnnamedFile.name)))
  IN {<<>>, <<a>>, <<a, b>>}
AppendFilesCalls(w) ==
  {[NoCall EXCEPT !.op = "appendFiles", !.proc = w, !.text = t, !.arg = Arr, !.files = fs] :
     t \in {Undefined, Num, Str(<<" ">>), Str(<<"c", " ">>)}, fs \in StoredAttachments}
    \cup {[NoCall EXCEPT !.op = "appendFiles", !.proc = w, !.text = t, !.arg = a] :
            t \in {Undefined, Str(<<"c", " ">>)}, a \in {Undefined, Num}}

Calls(w) ==
  PostTextCalls(w) \cup UploadCalls(w) \cup UpdateCalls(w) \cup DeleteCalls(w)
    \cup ListCalls(w)

----------------------------------------------------------------------------
(* The ChatInput component (components/app/ChatInput/ChatInput.tsx): its    *)
(* state text, selectedFiles and isSending, its ref sendingRef, and the     *)
(* calls of handleSend under way.  selectedFilesRef.current is the          *)
(* selectedFiles of the latest render, which React commits before the next  *)
(* event handler runs, so the model keeps one list for both.                *)

\* The calls of handleSend that can be under way at once
SendCalls == {1, 2}

\* A call of handleSend that is not under way
NoSend == [pc |-> "idle", payload |-> [kind |-> "none", value |-> <<>>], outcome |-> "none"]

\* No handler of the component has run yet
Nothing == [op |-> "none", arg |-> <<>>]

Init ==
  /\ ledger = NoFile
  /\ disk = {}
  /\ now = 1
  /\ pc = [r \in Slots |-> "idle"]
  /\ call = [r \in Slots |-> NoCall]
  /\ loc = [r \in Slots |-> NoLocals]
  /\ res = [r \in Slots |-> NoResponse]
  /\ cpu = [w \in Procs |-> None]
  /\ nreq = 0
  /\ hist = <<>>
  /\ lastPost = 0
  /\ trail = <<>>
  /\ dirExists = TRUE
  /\ chat = [text |-> <<>>, selectedFiles |-> <<>>, isSending |-> FALSE, sendingRef |-> FALSE]
  /\ sends = [c \in SendCalls |-> NoSend]
  /\ did = Nothing

----------------------------------------------------------------------------
(* Steps shared by the handlers *)

\* The synchronous code of r may start: no other request of its process is
\* inside its own.
ThreadFree(r) == cpu[call[r].proc] = None
\* A read that awaits: the thread is given back before the write.
HoldNot(r) == cpu' = cpu
Hold(r) == cpu' = [cpu EXCEPT ![call[r].proc] = r]
Release(r) == cpu' = [cpu EXCEPT ![call[r].proc] = None]

\* The handler returns its response.
Respond(r, status, code, data) ==
  /\ pc' = [pc EXCEPT ![r] = "done"]
  /\ res' = [res EXCEPT ![r] = [status |-> status, code |-> code, data |-> data]]

\* The three latest accesses to the ledger, kept while requests overlap.
Logged(r, ev) ==
  LET t == Append(trail, [req |-> r, ev |-> ev])
  IN trail' = IF Len(t) > 3 THEN Tail(t) ELSE t

\* A route that knows the codes of invalid input only
StatusOfInput(code) ==
  IF code \in {"EINVAL_ID", "EINVAL_TEXT"} THEN 400
  ELSE 500

\* The status the route gives an error code of lib/messages.
StatusOf(code) ==
  IF code \in {"EINVAL_ID", "EINVAL_TEXT"} THEN 400
  ELSE IF code = "ENOENT" THEN 404
  ELSE 500

\* The clock advances.
Tick ==
  /\ now < MaxClock
  /\ now' = now + 1
  /\ UNCHANGED <<ledger, disk, pc, call, loc, res, cpu, nreq, hist, lastPost, trail, dirExists, chatVars>>

\* A request arrives; the slot of an answered request is free again.
Receive(r, c) ==
  /\ pc[r] \in {"idle", "done"}
  /\ nreq < MaxReq
  /\ nreq' = nreq + 1
  /\ pc' = [pc EXCEPT ![r] = "ready"]
  /\ call' = [call EXCEPT ![r] = c]
  /\ loc' = [loc EXCEPT ![r] = NoLocals]
  /\ res' = [res EXCEPT ![r] = NoResponse]
  /\ trail' = IF \A q \in Slots \ {r} : pc[q] \in {"idle", "done"} THEN <<>> ELSE trail
  /\ UNCHANGED <<ledger, disk, now, cpu, hist, lastPost, dirExists, chatVars>>

\* The reference ledger after call c succeeded and returned record out: the
\* list of the messages appended and not deleted, in the order of their
\* appends, a text-only message with the trimmed text last given to it.
RefApply(h, c, out) ==
  LET n == NumberOf(c.id).n
      At(i) == h[i].id = n /\ \A j \in 1..(i - 1) : h[j].id # n
      noteGiven == c.note.t # "undefined"
      noteBlank == TrimmedOf(c.note) = <<>>
      Keys(m) == ((DOMAIN m \ (IF noteGiven /\ noteBlank THEN {"note"} ELSE {}))
                    \cup (IF c.text.t # "undefined" THEN {"text"} ELSE {}))
                    \cup (IF noteGiven /\ ~noteBlank THEN {"note"} ELSE {})
      New(m) == [k \in Keys(m) |->
                   IF k = "text" /\ c.text.t # "undefined" THEN Trim(c.text.s)
                   ELSE IF k = "note" /\ noteGiven THEN Str(Trim(c.note.s))
                   ELSE m[k]]
  IN CASE c.op = "postText" ->
            Append(h, [id |-> out.id, text |-> Trim(c.text.s), createdAt |-> out.createdAt])
       [] c.op \in {"upload", "appendFiles"} -> Append(h, out)
       [] c.op = "delete" ->
            IF \E i \in 1..Len(h) : At(i)
            THEN LET i == CHOOSE i \in 1..Len(h) : At(i)
                 IN SubSeq(h, 1, i - 1) \o SubSeq(h, i + 1, Len(h))
            ELSE h
       [] c.op = "update" -> [i \in 1..Len(h) |-> IF At(i) THEN New(h[i]) ELSE h[i]]
       [] OTHER -> h

\* ensureSharedDir: fs.mkdirSync(sharedDir, {recursive: true})
EnsureSharedDir == dirExists' = TRUE

\* writeMessages(messages) by request r, which then returns record out
LedgerWrite(r, messages, out) ==
  /\ EnsureSharedDir
  /\ ledger' = WriteMessages(messages)
  /\ Logged(r, "write")
  /\ hist' = RefApply(hist, call[r], out)

\* What fs.writeFileSync can leave of a file when it throws: it opens the
\* file with flag 'w', which empties it, and then writes.  Without the
\* permission the open fails and the file is as it was; without space the
\* open of a new file fails, or the write fails after the file was
\* emptied, at its start or part of the way.
LeftByFailedWrite(file, code) ==
  IF code = "ENOSPC" THEN {file, Blank, Garbage} ELSE {file}

\* writeMessages: fs.writeFileSync throws (no space, no permission); the
\* error passes through the store to the route, which answers by its code
LedgerWriteFail(r, code) ==
  /\ pc[r] = "write" /\ call[r].op \in {"postText", "update", "upload", "delete"}
  /\ EnsureSharedDir
  /\ ledger' \in LeftByFailedWrite(ledger, code)
  /\ hist' = IF ledger' = ledger THEN hist ELSE <<>>
  /\ Respond(r, StatusOf(code), code, <<>>)
  /\ Release(r)
  /\ UNCHANGED <<disk, now, call, loc, nreq, lastPost, trail, chatVars>>

\* The process dies (killed, out of memory): the requests it was handling
\* get no answer, and what they had not yet done is not done.
Crash(w) ==
  /\ \E r \in Slots : call[r].proc = w /\ pc[r] \notin {"idle", "done"}
  /\ pc' = [r \in Slots |-> IF call[r].proc = w /\ pc[r] \notin {"idle", "done"}
                              THEN "done" ELSE pc[r]]
  /\ cpu' = [cpu EXCEPT ![w] = None]
  /\ UNCHANGED <<ledger, disk, now, call, loc, res, nreq, hist, lastPost, trail, dirExists, chatVars>>

----------------------------------------------------------------------------
(* POST /api/messages: postText *)

\* appendMessage up to its read of the ledger
PostTextRead(r) ==
  /\ pc[r] = "ready" /\ call[r].op = "postText" /\ ThreadFree(r)
  /\ LET trimmed == TrimmedOf(call[r].text)
         read == SafeReadMessages(ledger)
         entry == AppendEntry(trimmed, now)
     IN IF trimmed = <<>>
        THEN /\ Respond(r, StatusOf("EINVAL_TEXT"), "EINVAL_TEXT", <<>>)
             /\ UNCHANGED <<loc, cpu, trail, dirExists>>
        ELSE IF read.threw
        THEN /\ Respond(r, 500, "", <<>>)
             /\ Logged(r, "read") /\ EnsureSharedDir
             /\ UNCHANGED <<loc, cpu>>
        ELSE /\ pc' = [pc EXCEPT ![r] = "write"]
             /\ loc' = [loc EXCEPT ![r].seen = read.val,
                                   ![r].messages = Append(read.val, entry),
                                   ![r].entry = <<entry>>]
             /\ Hold(r)
             /\ Logged(r, "read") /\ EnsureSharedDir
             /\ UNCHANGED res
  /\ UNCHANGED <<ledger, disk, now, call, nreq, hist, lastPost, chatVars>>

\* appendMessage: the write, and the 201 response
PostTextWrite(r) ==
  /\ pc[r] = "write" /\ call[r].op = "postText"
  /\ LedgerWrite(r, loc[r].messages, loc[r].entry[1])
  /\ Respond(r, 201, "", loc[r].entry)
  /\ Release(r)
  /\ lastPost' = loc[r].entry[1].id
  /\ UNCHANGED <<disk, now, call, loc, nreq, chatVars>>

----------------------------------------------------------------------------
(* GET /api/messages: readAll *)

ListMessages(r) ==
  /\ pc[r] = "ready" /\ call[r].op = "list" /\ ThreadFree(r)
  /\ LET read == SafeReadMessages(ledger)
     IN IF read.threw THEN Respond(r, 500, "", <<>>)
        ELSE Respond(r, 200, "", read.val)
  /\ EnsureSharedDir
  /\ UNCHANGED <<ledger, disk, now, call, loc, cpu, nreq, hist, lastPost, trail, chatVars>>

----------------------------------------------------------------------------
(* PATCH /api/messages/:id: updateById *)

UpdateRead(r) ==
  /\ pc[r] = "ready" /\ call[r].op = "update" /\ ThreadFree(r)
  /\ LET check == UpdateCheck(call[r].id, call[r].text, call[r].note)
         read == SafeReadMessages(ledger)
         plan == UpdatePlan(call[r].id, call[r].text, call[r].note, read.val)
     IN IF check # ""
        THEN /\ Respond(r, StatusOf(check), check, <<>>)
             /\ UNCHANGED <<loc, cpu, trail, dirExists>>
        ELSE IF read.threw \/ plan.code # ""
        THEN /\ Respond(r, IF read.threw THEN 500 ELSE StatusOf(plan.code),
                        IF read.threw THEN "" ELSE plan.code, <<>>)
             /\ Logged(r, "read") /\ EnsureSharedDir
             /\ UNCHANGED <<loc, cpu>>
        ELSE /\ pc' = [pc EXCEPT ![r] = "write"]
             /\ loc' = [loc EXCEPT ![r].seen = read.val,
                                   ![r].messages = plan.messages,
                                   ![r].entry = plan.updated]
             /\ Hold(r)
             /\ Logged(r, "read") /\ EnsureSharedDir
             /\ UNCHANGED res
  /\ UNCHANGED <<ledger, disk, now, call, nreq, hist, lastPost, chatVars>>

UpdateWrite(r) ==
  /\ pc[r] = "write" /\ call[r].op = "update"
  /\ LedgerWrite(r, loc[r].messages, loc[r].entry[1])
  /\ Respond(r, 200, "", loc[r].entry)
  /\ Release(r)
  /\ UNCHANGED <<disk, now, call, loc, nreq, lastPost, chatVars>>

----------------------------------------------------------------------------
(* POST /api/messages/upload: postUpload *)

\* The route without its test of files.length: an empty upload goes on to
\* appendMessageWithFiles
UploadCheckLenient(r) ==
  /\ pc[r] = "ready" /\ call[r].op = "upload" /\ ThreadFree(r)
  /\ pc' = [pc EXCEPT ![r] = IF Len(call[r].files) = 0 THEN "append" ELSE "save"]
  /\ UNCHANGED <<ledger, disk, now, call, loc, res, cpu, nreq, hist, lastPost, trail, dirExists, chatVars>>

\* lines 266-276: the form is parsed; no file, no upload
UploadCheck(r) ==
  /\ pc[r] = "ready" /\ call[r].op = "upload" /\ ThreadFree(r)
  /\ IF Len(call[r].files) = 0
     THEN Respond(r, 400, "", <<>>)
     ELSE pc' = [pc EXCEPT ![r] = "save"] /\ UNCHANGED res
  /\ UNCHANGED <<ledger, disk, now, call, loc, cpu, nreq, hist, lastPost, trail, dirExists, chatVars>>

\* A loop that takes the files from the last to the first
NextFileReversed(r) == call[r].files[Len(call[r].files) - Len(loc[r].uploaded)]

\* The file the loop of lines 279-281 saves next, and its stored name
NextFile(r) == call[r].files[Len(loc[r].uploaded) + 1]
NextName(r, rnd) == StoredName(now, rnd, SanitizeFilenamePart(NextFile(r).name))

\* saveFormFile: one file is written; the handler awaits the write
SaveFile(r, rnd) ==
  /\ pc[r] = "save" /\ ThreadFree(r)
  /\ disk' = disk \cup {NextName(r, rnd)}
  /\ loc' = [loc EXCEPT ![r].uploaded = Append(@, Attachment(NextFile(r), NextName(r, rnd)))]
  /\ pc' = [pc EXCEPT ![r] =
              IF Len(loc[r].uploaded) + 1 = Len(call[r].files) THEN "append" ELSE "save"]
  /\ dirExists' = TRUE
  /\ UNCHANGED <<ledger, now, call, res, cpu, nreq, hist, lastPost, trail, chatVars>>

\* A failed write that is swallowed: the loop goes on as if the file were saved
SaveFileFailSwallowed(r, rnd) ==
  /\ pc[r] = "save" /\ ThreadFree(r)
  /\ disk' = disk
  /\ loc' = [loc EXCEPT ![r].uploaded = Append(@, Attachment(NextFile(r), NextName(r, rnd)))]
  /\ pc' = [pc EXCEPT ![r] =
              IF Len(loc[r].uploaded) + 1 = Len(call[r].files) THEN "append" ELSE "save"]
  /\ UNCHANGED <<ledger, now, call, res, cpu, nreq, hist, lastPost, trail, dirExists, chatVars>>

\* saveFormFile: fs.writeFile rejects (no space, no permission); the file it
\* opened may or may not be left behind; the route answers 500
SaveFileFail(r, rnd) ==
  /\ pc[r] = "save" /\ ThreadFree(r)
  /\ disk' \in {disk, disk \cup {NextName(r, rnd)}}
  /\ Respond(r, 500, "", <<>>)
  /\ UNCHANGED <<ledger, now, call, loc, cpu, nreq, hist, lastPost, trail, dirExists, chatVars>>

\* lines 284-290 and appendMessageWithFiles up to its read of the ledger
UploadRead(r) ==
  /\ pc[r] = "append" /\ ThreadFree(r)
  /\ LET files == loc[r].uploaded
         trimmed == Trim(DerivedText(call[r].text, files))
         read == SafeReadMessages(ledger)
         entry == AppendFilesEntry(trimmed, files, now)
     IN IF Len(files) = 0
        THEN /\ Respond(r, StatusOf("EINVAL_TEXT"), "EINVAL_TEXT", <<>>)
             /\ UNCHANGED <<loc, cpu, trail, dirExists>>
        ELSE IF read.threw
        THEN /\ Respond(r, 500, "", <<>>)
             /\ Logged(r, "read") /\ EnsureSharedDir
             /\ UNCHANGED <<loc, cpu>>
        ELSE /\ pc' = [pc EXCEPT ![r] = "write"]
             /\ loc' = [loc EXCEPT ![r].seen = read.val,
                                   ![r].messages = Append(read.val, entry),
                                   ![r].entry = <<entry>>]
             /\ Hold(r)
             /\ Logged(r, "read") /\ EnsureSharedDir
             /\ UNCHANGED res
  /\ UNCHANGED <<ledger, disk, now, call, nreq, hist, lastPost, chatVars>>

\* appendMessageWithFiles: the write, and the 201 response
UploadWrite(r) ==
  /\ pc[r] = "write" /\ call[r].op = "upload"
  /\ LedgerWrite(r, loc[r].messages, loc[r].entry[1])
  /\ Respond(r, 201, "", loc[r].entry)
  /\ Release(r)
  /\ UNCHANGED <<disk, now, call, loc, nreq, lastPost, chatVars>>

\* appendMessageWithFiles without its test of files: whatever files is, the
\* entry is made
AppendFilesReadUnchecked(r) ==
  /\ pc[r] = "ready" /\ call[r].op = "appendFiles" /\ ThreadFree(r)
  /\ LET read == SafeReadMessages(ledger)
         entry == AppendFilesEntry(TrimmedOf(call[r].text), call[r].files, now)
     IN /\ pc' = [pc EXCEPT ![r] = "write"]
        /\ loc' = [loc EXCEPT ![r].seen = read.val,
                              ![r].messages = Append(read.val, entry),
                              ![r].entry = <<entry>>]
  /\ Hold(r)
  /\ Logged(r, "read") /\ EnsureSharedDir
  /\ UNCHANGED <<ledger, disk, now, call, res, nreq, hist, lastPost, chatVars>>

\* appendMessageWithFiles({text, files}) called by itself, up to its read of
\* the ledger
AppendFilesRead(r) ==
  /\ pc[r] = "ready" /\ call[r].op = "appendFiles" /\ ThreadFree(r)
  /\ LET files == call[r].files
         trimmed == TrimmedOf(call[r].text)
         read == SafeReadMessages(ledger)
         entry == AppendFilesEntry(trimmed, files, now)
     IN IF call[r].arg # Arr \/ Len(files) = 0
        THEN /\ Respond(r, 0, "EINVAL_TEXT", <<>>)
             /\ UNCHANGED <<loc, cpu, trail, dirExists>>
        ELSE IF read.threw
        THEN /\ Respond(r, 0, "", <<>>)
             /\ Logged(r, "read") /\ EnsureSharedDir
             /\ UNCHANGED <<loc, cpu>>
        ELSE /\ pc' = [pc EXCEPT ![r] = "write"]
             /\ loc' = [loc EXCEPT ![r].seen = read.val,
                                   ![r].messages = Append(read.val, entry),
                                   ![r].entry = <<entry>>]
             /\ Hold(r)
             /\ Logged(r, "read") /\ EnsureSharedDir
             /\ UNCHANGED res
  /\ UNCHANGED <<ledger, disk, now, call, nreq, hist, lastPost, chatVars>>

\* appendMessageWithFiles called by itself: the write; the entry is returned
AppendFilesWrite(r) ==
  /\ pc[r] = "write" /\ call[r].op = "appendFiles"
  /\ LedgerWrite(r, loc[r].messages, loc[r].entry[1])
  /\ Respond(r, 0, "", loc[r].entry)
  /\ Release(r)
  /\ UNCHANGED <<disk, now, call, loc, nreq, lastPost, chatVars>>

----------------------------------------------------------------------------
(* DELETE /api/messages/:id: deleteMessage *)

\* deleteMessageById up to its read of the ledger
DeleteRead(r) ==
  /\ pc[r] = "ready" /\ call[r].op = "delete" /\ ThreadFree(r)
  /\ LET read == SafeReadMessages(ledger)
         plan == DeletePlan(call[r].id, read.val)
     IN IF ~NumberOf(call[r].id).finite
        THEN /\ Respond(r, StatusOf("EINVAL_ID"), "EINVAL_ID", <<>>)
             /\ UNCHANGED <<loc, cpu, trail, dirExists>>
        ELSE IF read.threw \/ plan.code # ""
        THEN /\ Respond(r, IF read.threw THEN 500 ELSE StatusOf(plan.code),
                        IF read.threw THEN "" ELSE plan.code, <<>>)
             /\ Logged(r, "read") /\ EnsureSharedDir
             /\ UNCHANGED <<loc, cpu>>
        ELSE /\ pc' = [pc EXCEPT ![r] = "write"]
             /\ loc' = [loc EXCEPT ![r].seen = read.val,
                                   ![r].messages = plan.messages,
                                   ![r].entry = plan.removed]
             /\ Hold(r)
             /\ Logged(r, "read") /\ EnsureSharedDir
             /\ UNCHANGED res
  /\ UNCHANGED <<ledger, disk, now, call, nreq, hist, lastPost, chatVars>>

\* A route that goes on to the files before the entry is out of the ledger
DeleteWriteSkipped(r) ==
  /\ pc[r] = "write" /\ call[r].op = "delete"
  /\ pc' = [pc EXCEPT ![r] = "cascade"]
  /\ loc' = [loc EXCEPT ![r].k = 1]
  /\ UNCHANGED <<ledger, disk, now, call, res, cpu, nreq, hist, lastPost, trail, dirExists, chatVars>>

\* deleteMessageById: the write; the route goes on to the removed message's files
DeleteWrite(r) ==
  /\ pc[r] = "write" /\ call[r].op = "delete"
  /\ LedgerWrite(r, loc[r].messages, loc[r].entry[1])
  /\ pc' = [pc EXCEPT ![r] = "cascade"]
  /\ loc' = [loc EXCEPT ![r].k = 1]
  /\ UNCHANGED <<disk, now, call, res, cpu, nreq, lastPost, chatVars>>

\* The files of the removed message: Array.isArray(removed.files)
RemovedFiles(r) ==
  IF "files" \in DOMAIN loc[r].entry[1] THEN loc[r].entry[1].files ELSE <<>>

\* A cascade that takes an absent file for an error and answers 404
CascadeExistsStrict(r) ==
  /\ pc[r] = "cascade" /\ loc[r].k <= Len(RemovedFiles(r))
  /\ LET p == GetSharedFilePath(Str(RemovedFiles(r)[loc[r].k].filename))
     IN IF p.threw \/ ~ExistsSync(p.path, disk, ledger)
        THEN /\ Respond(r, StatusOf("ENOENT"), "ENOENT", <<>>)
             /\ cpu' = [cpu EXCEPT ![call[r].proc] = None]
             /\ UNCHANGED loc
        ELSE /\ pc' = [pc EXCEPT ![r] = "unlink"]
             /\ UNCHANGED <<loc, res, cpu>>
  /\ UNCHANGED <<ledger, disk, now, call, nreq, hist, lastPost, trail, dirExists, chatVars>>

\* deleteSharedFile of the k-th file, up to fs.existsSync: an invalid name
\* throws, which the route logs; an absent file is passed over
CascadeExists(r) ==
  /\ pc[r] = "cascade" /\ loc[r].k <= Len(RemovedFiles(r))
  /\ LET p == GetSharedFilePath(Str(RemovedFiles(r)[loc[r].k].filename))
     IN IF p.threw
        THEN /\ loc' = [loc EXCEPT ![r].k = @ + 1, ![r].warned = @ + 1]
             /\ UNCHANGED pc
        ELSE IF ~ExistsSync(p.path, disk, ledger)
        THEN /\ loc' = [loc EXCEPT ![r].k = @ + 1]
             /\ UNCHANGED pc
        ELSE /\ pc' = [pc EXCEPT ![r] = "unlink"]
             /\ UNCHANGED loc
  /\ UNCHANGED <<ledger, disk, now, call, res, cpu, nreq, hist, lastPost, trail, dirExists, chatVars>>

\* fs.unlinkSync of the k-th file; ENOENT (the file vanished since existsSync)
\* is caught by deleteSharedFile
CascadeUnlink(r) ==
  /\ pc[r] = "unlink"
  /\ LET name == RemovedFiles(r)[loc[r].k].filename
     IN IF name = LedgerName
        THEN ledger' = NoFile /\ UNCHANGED disk
        ELSE disk' = disk \ {name} /\ UNCHANGED ledger
  /\ pc' = [pc EXCEPT ![r] = "cascade"]
  /\ loc' = [loc EXCEPT ![r].k = @ + 1]
  /\ UNCHANGED <<now, call, res, cpu, nreq, hist, lastPost, trail, dirExists, chatVars>>

\* A failed unlink that is not caught: the route answers 500
CascadeUnlinkFailEscalated(r) ==
  /\ pc[r] = "unlink"
  /\ Respond(r, 500, "", <<>>)
  /\ cpu' = [cpu EXCEPT ![call[r].proc] = None]
  /\ UNCHANGED <<ledger, disk, now, call, loc, nreq, hist, lastPost, trail, dirExists, chatVars>>

\* fs.unlinkSync throws another error (no permission, busy): deleteSharedFile
\* rethrows it, the route logs it and goes on
CascadeUnlinkFail(r) ==
  /\ pc[r] = "unlink"
  /\ pc' = [pc EXCEPT ![r] = "cascade"]
  /\ loc' = [loc EXCEPT ![r].k = @ + 1, ![r].warned = @ + 1]
  /\ UNCHANGED <<ledger, disk, now, call, res, cpu, nreq, hist, lastPost, trail, dirExists, chatVars>>

\* lines 31-34: the 200 response with the removed message
DeleteRespond(r) ==
  /\ pc[r] = "cascade" /\ loc[r].k > Len(RemovedFiles(r))
  /\ Respond(r, 200, "", loc[r].entry)
  /\ Release(r)
  /\ UNCHANGED <<ledger, disk, now, call, loc, nreq, hist, lastPost, trail, dirExists, chatVars>>

----------------------------------------------------------------------------
(* The file store: lib/messages getSharedFilePath and deleteSharedFile, the  *)
(* Express files service and its routes, the route GET /shared/[filename].  *)
(* A call that returns a path, or reads or unlinks the file of a path,      *)
(* answers with that path as its data.                                      *)

\* fs.unlinkSync(p): the file of path p is gone
UnlinkPath(p) ==
  IF InShared(p) /\ p[Len(p)] = LedgerName
  THEN ledger' = NoFile /\ hist' = <<>> /\ UNCHANGED disk
  ELSE IF InShared(p)
  THEN disk' = disk \ {p[Len(p)]} /\ UNCHANGED <<ledger, hist>>
  ELSE UNCHANGED <<ledger, disk, hist>>

\* getSharedFilePath(arg), called by itself
ResolvePath(r) ==
  /\ pc[r] = "ready" /\ call[r].op = "resolve" /\ ThreadFree(r)
  /\ LET p == GetSharedFilePath(call[r].arg)
     IN IF p.threw THEN Respond(r, 0, p.code, <<>>)
        ELSE Respond(r, 0, "", <<p.path>>)
  /\ UNCHANGED <<ledger, disk, now, call, loc, cpu, nreq, hist, lastPost, trail, dirExists, chatVars>>

\* files.service getFilePath(arg), called by itself
ResolveFile(r) ==
  /\ pc[r] = "ready" /\ call[r].op = "resolveFile" /\ ThreadFree(r)
  /\ LET p == GetFilePath(call[r].arg)
     IN IF p.threw THEN Respond(r, 0, p.code, <<>>)
        ELSE Respond(r, 0, "", <<p.path>>)
  /\ UNCHANGED <<ledger, disk, now, call, loc, cpu, nreq, hist, lastPost, trail, dirExists, chatVars>>

\* deleteSharedFile(arg), called by itself, up to fs.existsSync; it returns
\* false (no data) for an absent file
DeleteSharedExists(r) ==
  /\ pc[r] = "ready" /\ call[r].op = "deleteShared" /\ ThreadFree(r)
  /\ LET p == GetSharedFilePath(call[r].arg)
     IN IF p.threw
        THEN Respond(r, 0, p.code, <<>>) /\ UNCHANGED <<loc, cpu>>
        ELSE IF ~ExistsSync(p.path, disk, ledger)
        THEN Respond(r, 0, "", <<>>) /\ UNCHANGED <<loc, cpu>>
        ELSE /\ pc' = [pc EXCEPT ![r] = "sunlink"]
             /\ loc' = [loc EXCEPT ![r].entry = <<p.path>>]
             /\ Hold(r)
             /\ UNCHANGED res
  /\ UNCHANGED <<ledger, disk, now, call, nreq, hist, lastPost, trail, dirExists, chatVars>>

\* deleteSharedFile that lets the ENOENT of a vanished file through to its
\* caller
DeleteSharedUnlinkThrows(r) ==
  /\ pc[r] = "sunlink"
  /\ LET p == loc[r].entry[1]
     IN IF ~ExistsSync(p, disk, ledger)
        THEN Respond(r, 0, "ENOENT", <<>>) /\ UNCHANGED <<ledger, disk, hist>>
        ELSE Respond(r, 0, "", <<p>>) /\ UnlinkPath(p)
  /\ Release(r)
  /\ UNCHANGED <<now, call, loc, nreq, lastPost, trail, dirExists, chatVars>>

\* deleteSharedFile: fs.unlinkSync; it returns true (the path as data), or
\* false when the file vanished since existsSync (ENOENT, caught)
DeleteSharedUnlink(r) ==
  /\ pc[r] = "sunlink"
  /\ LET p == loc[r].entry[1]
     IN IF ~ExistsSync(p, disk, ledger)
        THEN Respond(r, 0, "", <<>>) /\ UNCHANGED <<ledger, disk, hist>>
        ELSE Respond(r, 0, "", <<p>>) /\ UnlinkPath(p)
  /\ Release(r)
  /\ UNCHANGED <<now, call, loc, nreq, lastPost, trail, dirExists, chatVars>>

\* deleteSharedFile: fs.unlinkSync fails with another error than ENOENT (no
\* permission, a directory in place of the file); the error is thrown again
DeleteSharedUnlinkFail(r) ==
  /\ pc[r] = "sunlink"
  /\ ExistsSync(loc[r].entry[1], disk, ledger)
  /\ Respond(r, 0, "EACCES", <<>>)
  /\ Release(r)
  /\ UNCHANGED <<ledger, disk, now, call, loc, nreq, hist, lastPost, trail, dirExists, chatVars>>

\* The status files.controller gives an error code of files.service.
FileStatusOf(code) ==
  IF code = "EINVAL_FILENAME" THEN 400
  ELSE IF code = "ENOENT" THEN 404
  ELSE 500

\* DELETE /api/files/:filename (files.controller deleteFile, files.service
\* deleteFile) up to fs.existsSync
FileDeleteExists(r) ==
  /\ pc[r] = "ready" /\ call[r].op = "fileDelete" /\ ThreadFree(r)
  /\ LET decoded == DecodeURIComponent(call[r].arg.s)
         p == GetFilePath(Str(decoded.s))
     IN IF decoded.threw
        THEN Respond(r, 500, "", <<>>) /\ UNCHANGED <<loc, cpu>>
        ELSE IF p.threw
        THEN Respond(r, FileStatusOf(p.code), p.code, <<>>) /\ UNCHANGED <<loc, cpu>>
        ELSE IF ~ExistsSync(p.path, disk, ledger)
        THEN Respond(r, FileStatusOf("ENOENT"), "ENOENT", <<>>) /\ UNCHANGED <<loc, cpu>>
        ELSE /\ pc' = [pc EXCEPT ![r] = "funlink"]
             /\ loc' = [loc EXCEPT ![r].entry = <<p.path>>]
             /\ Hold(r)
             /\ UNCHANGED res
  /\ UNCHANGED <<ledger, disk, now, call, nreq, hist, lastPost, trail, dirExists, chatVars>>

\* files.service deleteFile: fs.unlinkSync, and the 200 response; ENOENT of a
\* file that vanished since existsSync is answered 404
FileDeleteUnlink(r) ==
  /\ pc[r] = "funlink"
  /\ LET p == loc[r].entry[1]
     IN IF ~ExistsSync(p, disk, ledger)
        THEN Respond(r, FileStatusOf("ENOENT"), "ENOENT", <<>>) /\ UNCHANGED <<ledger, disk, hist>>
        ELSE Respond(r, 200, "", <<p>>) /\ UnlinkPath(p)
  /\ Release(r)
  /\ UNCHANGED <<now, call, loc, nreq, lastPost, trail, dirExists, chatVars>>

\* GET /shared/[filename]: the file of the path is read
SharedGet(r) ==
  /\ pc[r] = "ready" /\ call[r].op = "fileGet" /\ ThreadFree(r)
  /\ LET decoded == DecodeURIComponent(call[r].arg.s)
         p == RoutePath(Str(decoded.s))
     IN IF decoded.threw THEN Respond(r, 500, "", <<>>)
        ELSE IF p.threw THEN Respond(r, 400, p.code, <<>>)
        ELSE IF ~ExistsSync(p.path, disk, ledger) THEN Respond(r, 404, "ENOENT", <<>>)
        ELSE Respond(r, 200, "", <<p.path>>)
  /\ UNCHANGED <<ledger, disk, now, call, loc, cpu, nreq, hist, lastPost, trail, dirExists, chatVars>>

\* POST /api/files/upload: multer has stored the files under their names
\* when files.controller uploadFile answers; it cannot store them, and the
\* request fails, when the destination directory is gone
FileUpload(r) ==
  /\ pc[r] = "ready" /\ call[r].op = "fileUpload" /\ ThreadFree(r)
  /\ IF Len(call[r].files) = 0
     THEN Respond(r, 400, "", <<>>) /\ UNCHANGED disk
     ELSE IF ~dirExists
     THEN Respond(r, 500, "", <<>>) /\ UNCHANGED disk
     ELSE /\ disk' = disk \cup {MulterName(now, call[r].files[i].name) :
                                   i \in 1..Len(call[r].files)}
          /\ Respond(r, 201, "", <<>>)
  /\ UNCHANGED <<ledger, now, call, loc, cpu, nreq, hist, lastPost, trail, dirExists, chatVars>>

\* GET /api/files (files.controller getFiles): the names are the data; the
\* error of readdirSync is not caught, Express answers it with 500
FileList(r) ==
  /\ pc[r] = "ready" /\ call[r].op = "fileList" /\ ThreadFree(r)
  /\ LET files == ListFiles(disk, ledger, dirExists)
     IN IF files.threw THEN Respond(r, 500, "", <<>>)
        ELSE Respond(r, 200, "", <<NotLedger(files.names)>>)
  /\ UNCHANGED <<ledger, disk, now, call, loc, cpu, nreq, hist, lastPost, trail, dirExists, chatVars>>

\* GET /shared: the names are the data; ENOENT is answered with the empty list
SharedList(r) ==
  /\ pc[r] = "ready" /\ call[r].op = "sharedList" /\ ThreadFree(r)
  /\ LET entries == ListFiles(disk, ledger, dirExists)
     IN IF entries.threw THEN Respond(r, 200, "", <<{}>>)
        ELSE Respond(r, 200, "", <<NotLedger(entries.names)>>)
  /\ UNCHANGED <<ledger, disk, now, call, loc, cpu, nreq, hist, lastPost, trail, dirExists, chatVars>>

FileStore(r) ==
  \/ ResolvePath(r) \/ ResolveFile(r)
  \/ DeleteSharedExists(r) \/ DeleteSharedUnlink(r)
  \/ FileDeleteExists(r) \/ FileDeleteUnlink(r)
  \/ SharedGet(r) \/ FileUpload(r)

----------------------------------------------------------------------------
(* What happens to shared/ from outside the handlers *)

\* A ledger edited by hand: its one message names a file outside shared/ and
\* the file an upload of NamedFile stored in the first millisecond.
Edited ==
  JSONStringify(<<[id |-> 1, text |-> <<"e">>, createdAt |-> ToISOString(1),
                   files |-> <<Attachment(NamedFile, <<".", ".", "/", "x">>),
                               Attachment(NamedFile,
                                          StoredName(1, <<"4">>, NamedFile.name))>>]>>)

\* A file of shared/ is removed by hand.
RemoveByHand(name) ==
  /\ name \in disk
  /\ nreq < MaxReq
  /\ nreq' = nreq + 1
  /\ disk' = disk \ {name}
  /\ UNCHANGED <<ledger, now, pc, call, loc, res, cpu, hist, lastPost, trail, dirExists, chatVars>>

\* The shared directory is removed with all it holds.
RemoveDir ==
  /\ dirExists
  /\ \A r \in Slots : pc[r] \in {"idle", "done"}
  /\ nreq < MaxReq
  /\ nreq' = nreq + 1
  /\ dirExists' = FALSE
  /\ disk' = {} /\ ledger' = NoFile /\ hist' = <<>>
  /\ UNCHANGED <<now, pc, call, loc, res, cpu, lastPost, trail, chatVars>>

\* The ledger file is overwritten with something that is not an array of
\* messages, or removed.
Overwrite(content) ==
  /\ ledger # content
  /\ nreq < MaxReq
  /\ nreq' = nreq + 1
  /\ ledger' = content
  /\ hist' = SafeReadMessages(content).val
  /\ UNCHANGED <<disk, now, pc, call, loc, res, cpu, lastPost, trail, dirExists, chatVars>>

\* Between two requests the ledger is replaced by the edited one.
EditByHand ==
  /\ \A r \in Slots : pc[r] \in {"idle", "done"}
  /\ Overwrite(Edited)

----------------------------------------------------------------------------
(* Specifications *)

\* The steps of the handlers that change the ledger
Mutator(r) ==
  \/ PostTextRead(r) \/ PostTextWrite(r)
  \/ UpdateRead(r) \/ UpdateWrite(r)
  \/ UploadCheck(r) \/ UploadRead(r) \/ UploadWrite(r)
  \/ DeleteRead(r) \/ DeleteWrite(r)
  \/ CascadeExists(r) \/ CascadeUnlink(r) \/ DeleteRespond(r)

Handler(r) == Mutator(r) \/ ListMessages(r)

\* One process, one request at a time, each answered before the next arrives:
\* every call of the five routes.  Math.random() takes one value here.
NextSeq ==
  \/ Tick
  \/ \E c \in Calls(1) : Receive(1, c)
  \/ Handler(1)
  \/ \E rnd \in {<<"4">>} : SaveFile(1, rnd)

SpecSeq == Init /\ [][NextSeq]_vars

\* The calls that make, list and remove messages, without the invalid ones.
FileCalls(w) ==
  {c \in PostTextCalls(w) : TrimmedOf(c.text) # <<>>}
    \cup {c \in UploadCalls(w) : c.text = Undefined /\ c.files # <<>>}
    \cup {c \in UpdateCalls(w) :
            c.id = <<"1">> /\ c.note = Undefined /\ TrimmedOf(c.text) # <<>>}
    \cup {c \in DeleteCalls(w) : NumberOf(c.id).finite}
    \cup ListCalls(w)

\* One process, one request at a time: uploads and deletions of messages.
NextFiles ==
  \/ Tick
  \/ \E c \in FileCalls(1) : Receive(1, c)
  \/ Handler(1)
  \/ \E rnd \in Randoms : SaveFile(1, rnd)

SpecFiles == Init /\ [][NextFiles]_vars

\* The same, with shared/ also changed from outside.
NextEnv ==
  \/ NextFiles
  \/ \E name \in disk : RemoveByHand(name)
  \/ \E content \in {NoFile, Blank, Garbage, JsonObject} : Overwrite(content)

SpecEnv == Init /\ [][NextEnv]_vars

\* The same as NextFiles, with file-system failures.
NextFault ==
  \/ NextFiles
  \/ \E rnd \in Randoms : SaveFileFail(1, rnd)
  \/ CascadeUnlinkFail(1)
  \/ EditByHand

SpecFault == Init /\ [][NextFault]_vars

\* The calls on the file store, and the postText that makes the ledger file.
NameCalls(w) ==
  ResolveCalls(w) \cup RouteFileCalls(w) \cup FileUploadCalls(w)
    \cup {c \in PostTextCalls(w) : TrimmedOf(c.text) # <<>>}

\* One process, one request at a time: names given to the file store, with
\* files removed by hand in between.
NextNames ==
  \/ Tick
  \/ \E c \in NameCalls(1) : Receive(1, c)
  \/ FileStore(1)
  \/ PostTextRead(1) \/ PostTextWrite(1)
  \/ \E name \in disk : RemoveByHand(name)

SpecNames == Init /\ [][NextNames]_vars

\* The same, with unlinks that fail.
NextNamesFault ==
  \/ NextNames
  \/ DeleteSharedUnlinkFail(1)

SpecNamesFault == Init /\ [][NextNamesFault]_vars

\* The listings of the shared directory, with uploads, a postText that makes
\* the ledger, and files and the directory itself removed by hand.
ListingCalls(w) ==
  {[NoCall EXCEPT !.op = o, !.proc = w] : o \in {"fileList", "sharedList"}}
    \cup FileUploadCalls(w)
    \cup {c \in PostTextCalls(w) : TrimmedOf(c.text) # <<>>}

NextList ==
  \/ Tick
  \/ \E c \in ListingCalls(1) : Receive(1, c)
  \/ FileList(1) \/ SharedList(1) \/ FileUpload(1)
  \/ PostTextRead(1) \/ PostTextWrite(1)
  \/ \E name \in disk : RemoveByHand(name)
  \/ RemoveDir

SpecList == Init /\ [][NextList]_vars

\* Every route of the two servers, one request at a time, with file-system
\* failures and with files and the directory removed by hand.
HttpCalls(w) ==
  Calls(w) \cup RouteFileCalls(w) \cup FileUploadCalls(w)
    \cup {[NoCall EXCEPT !.op = o, !.proc = w] : o \in {"fileList", "sharedList"}}

NextHttp ==
  \/ Tick
  \/ \E c \in HttpCalls(1) : Receive(1, c)
  \/ Handler(1)
  \/ \E rnd \in {<<"4">>} : SaveFile(1, rnd)
  \/ \E rnd \in {<<"4">>} : SaveFileFail(1, rnd)
  \/ CascadeUnlinkFail(1)
  \/ FileDeleteExists(1) \/ FileDeleteUnlink(1) \/ SharedGet(1) \/ FileUpload(1)
  \/ FileList(1) \/ SharedList(1)
  \/ \E name \in disk : RemoveByHand(name)
  \/ RemoveDir
  \/ \E code \in {"ENOSPC", "EACCES"} : LedgerWriteFail(1, code)

SpecHttp == Init /\ [][NextHttp]_vars

\* One process, one request at a time: uploads with every caption and file
\* name.
NextUploads ==
  \/ Tick
  \/ \E c \in CaptionedCalls(1) : Receive(1, c)
  \/ UploadCheck(1) \/ UploadRead(1) \/ UploadWrite(1)
  \/ \E rnd \in {<<"4">>} : SaveFile(1, rnd)

SpecUploads == Init /\ [][NextUploads]_vars

\* One caller, one call at a time: appendMessageWithFiles called by itself.
NextAppendFiles ==
  \/ Tick
  \/ \E c \in AppendFilesCalls(1) : Receive(1, c)
  \/ AppendFilesRead(1) \/ AppendFilesWrite(1)

SpecAppendFiles == Init /\ [][NextAppendFiles]_vars

\* The calls of overlapping requests.
RaceCalls(w) ==
  {c \in PostTextCalls(w) : TrimmedOf(c.text) # <<>>}
    \cup {c \in UploadCalls(w) : c.text = Undefined /\ Len(c.files) = 1}
    \cup {c \in UpdateCalls(w) :
            /\ c.id = <<"1">>
            /\ \/ c.text = Undefined /\ TrimmedOf(c.note) # <<>>
               \/ c.note = Undefined /\ TrimmedOf(c.text) # <<>>}
    \cup {c \in DeleteCalls(w) : c.id = <<"1">>}

\* Requests overlap, within a process and across processes: the requests of
\* slot 1 run in process 1, those of slot 2 in either process.
Next ==
  \/ Tick
  \/ \E r \in Slots, w \in Procs : \E c \in RaceCalls(w) : w <= r /\ Receive(r, c)
  \/ \E r \in Slots : Mutator(r)
  \/ \E r \in Slots : \E rnd \in {<<"4">>} : SaveFile(r, rnd)

Spec == Init /\ [][Next]_vars

\* Display names of uploaded files: none, with separators, with '..', with a
\* leading dot, of dots only, with a character outside ASCII and a space, of
\* 256 characters, the ledger's
DisplayNames ==
  {<<>>, <<"a", "/", "\\", "b">>, <<".", ".", "/", "x">>, <<".", "x">>, <<".", ".", ".">>,
   <<"é", " ", "x">>, Long(NameLimit + 1), LedgerName}
DisplayCalls(w) ==
  {[NoCall EXCEPT !.op = "upload", !.proc = w,
                  !.files = <<[name |-> n, size |-> 1, type |-> "text/plain"]>>] :
     n \in DisplayNames}
    \cup {c \in DeleteCalls(w) : c.id = <<"1">>}

\* One process, one request at a time: uploads of files of every display
\* name, and deletions, within one millisecond; Math.random() may give 0,
\* whose digits are none.
NextDisplay ==
  \/ \E c \in DisplayCalls(1) : Receive(1, c)
  \/ UploadCheck(1) \/ UploadRead(1) \/ UploadWrite(1)
  \/ \E rnd \in {<<"4">>, <<>>} : SaveFile(1, rnd)
  \/ DeleteRead(1) \/ DeleteWrite(1)
  \/ CascadeExists(1) \/ CascadeUnlink(1) \/ DeleteRespond(1)

SpecDisplay == Init /\ [][NextDisplay]_vars

\* One process, one request at a time: uploads and posts, with saves and
\* ledger writes that fail and with the process dying under way.
UploadFaultCalls(w) ==
  {c \in PostTextCalls(w) : TrimmedOf(c.text) # <<>>}
    \cup {c \in UploadCalls(w) : c.text = Undefined /\ c.files # <<>>}

NextCrash ==
  \/ Tick
  \/ \E c \in UploadFaultCalls(1) : Receive(1, c)
  \/ PostTextRead(1) \/ PostTextWrite(1)
  \/ UploadCheck(1) \/ UploadRead(1) \/ UploadWrite(1)
  \/ \E rnd \in {<<"4">>} : SaveFile(1, rnd)
  \/ \E rnd \in {<<"4">>} : SaveFileFail(1, rnd)
  \/ \E code \in {"ENOSPC", "EACCES"} : LedgerWriteFail(1, code)
  \/ Crash(1)

SpecCrash == Init /\ [][NextCrash]_vars

\* Requests overlap within the one process: a request is taken up while
\* another awaits a file save; every deletion is among the calls.
NextOverlap ==
  \/ Tick
  \/ \E r \in Slots : \E c \in RaceCalls(1) \cup DeleteCalls(1) : Receive(r, c)
  \/ \E r \in Slots : Mutator(r)
  \/ \E r \in Slots : \E rnd \in {<<"4">>} : SaveFile(r, rnd)

SpecOverlap == Init /\ [][NextOverlap]_vars

----------------------------------------------------------------------------
(* The message store, one call after another *)

\* readAll(): what safeReadMessages returns of the ledger as it stands
ReadAll == SafeReadMessages(ledger).val

\* C1: from an absent ledger, after any sequence of append, appendWithAttachments,
\* updateById and deleteById calls made one after another, readAll returns
\* exactly the messages appended and not deleted, each once, in the order of
\* their appends, a text-only message with the trimmed text last given to it:
\* the ledger reads as the reference list, and so does the answer of GET
\* /api/messages.
C1_RoundTrip ==
  /\ ReadAll = hist
  /\ \A r \in Slots :
       (pc[r] = "done" /\ call[r].op = "list") => (res[r].status = 200 /\ res[r].data = hist)

\* C1 happens: of two messages appended one millisecond apart the first was
\* deleted, and the second is what readAll returns.
C1_Witness ==
  /\ pc[1] = "done" /\ call[1].op = "delete" /\ res[1].status = 200
  /\ res[1].data[1].id = 1
  /\ Len(hist) = 1 /\ hist[1].id = 2
  /\ ReadAll = hist

\* C2: in every reachable ledger no two messages have the same id, several
\* appends in the same millisecond included.
C2_UniqueIds ==
  \A i, j \in 1..Len(ReadAll) : i # j => ReadAll[i].id # ReadAll[j].id

\* C3: of two successful postText calls the later returns an id strictly
\* greater than the id the earlier returned, also within one millisecond.
C3_IncreasingIds ==
  [][\A r \in Slots :
       (pc[r] = "write" /\ call[r].op = "postText" /\ pc'[r] = "done" /\ lastPost # 0)
         => res'[r].data[1].id > lastPost]_vars

----------------------------------------------------------------------------
(* Overlapping requests *)

\* The latest ledger accesses are: a reads, b reads.
ReadRead(a, b) ==
  /\ Len(trail) >= 2
  /\ trail[Len(trail) - 1] = [req |-> a, ev |-> "read"]
  /\ trail[Len(trail)] = [req |-> b, ev |-> "read"]

\* The latest ledger accesses are: a reads, b reads, a writes.
ReadReadWrite(a, b) ==
  trail = <<[req |-> a, ev |-> "read"], [req |-> b, ev |-> "read"],
            [req |-> a, ev |-> "write"]>>

\* C4: when two mutating store calls A and B interleave as read-A, read-B,
\* write-A, write-B, neither write ends in an error, and the write of B leaves
\* the ledger as B's change applied to what B read, without A's change.
C4_LastWriteWins ==
  [][\A a, b \in Slots :
       /\ (a # b /\ ReadRead(a, b) /\ pc[a] = "write" /\ pc'[a] # "write")
            => /\ pc'[a] \in {"done", "cascade"}
               /\ pc'[a] = "done" => res'[a].status \in {200, 201}
       /\ (a # b /\ ReadReadWrite(a, b) /\ pc[b] = "write" /\ pc'[b] # "write")
            => /\ SafeReadMessages(ledger').val
                    = RefApply(loc[b].seen, call[b], loc[b].entry[1])
               /\ pc'[b] \in {"done", "cascade"}
               /\ pc'[b] = "done" => res'[b].status \in {200, 201}]_vars

\* C4 happens: both calls have answered with success after B wrote over A's
\* write, and the ledger is not what the two changes one after the other give.
C4_Witness ==
  \E a, b \in Slots :
    /\ a # b
    /\ trail = <<[req |-> b, ev |-> "read"], [req |-> a, ev |-> "write"],
                 [req |-> b, ev |-> "write"]>>
    /\ pc[a] = "done" /\ res[a].status \in {200, 201}
    /\ pc[b] = "done" /\ res[b].status \in {200, 201}
    /\ ReadAll # hist
    /\ ReadAll = RefApply(loc[b].seen, call[b], loc[b].entry[1])

\* Request r has made a step of its operation and not yet its last.
Started(r) == pc[r] \in {"save", "append", "write", "cascade", "unlink"}

\* Request r makes a step of its handler.
Steps(r) == pc[r] \notin {"idle", "done"} /\ (pc'[r] # pc[r] \/ loc'[r] # loc[r])

\* C5 as stated: between the first and the last step of an operation (its file
\* saves, its ledger read, its ledger write) no other operation of the same
\* process makes a step.
C5_RunToCompletion ==
  [][\A r, q \in Slots :
       (r # q /\ call[r].proc = call[q].proc /\ Started(r)) => ~Steps(q)]_vars

\* Request r is inside the synchronous code of lib/messages or of the cascade.
InStore(r) == pc[r] \in {"write", "cascade", "unlink"}

\* C5 as amended: between the ledger read of an operation and its ledger write,
\* and for deleteMessage up to the end of its cascade, no other operation of
\* the same process makes a step; postUpload gives the thread back at each file
\* save, where steps of other operations do come in.
C5_StoreCallsAtomic ==
  [][\A r, q \in Slots :
       (r # q /\ call[r].proc = call[q].proc /\ InStore(r)) => ~Steps(q)]_vars

\* C5 happens: a request has read the ledger and not yet written it while
\* another request of the same process waits, one of them in the middle of an
\* upload.
C5_Witness ==
  \E r, q \in Slots :
    /\ r # q /\ call[r].proc = call[q].proc
    /\ pc[r] = "write"
    /\ pc[q] \in {"save", "append"}

----------------------------------------------------------------------------
(* Messages and their files *)

\* The stored names of the attachments of message m
FileNames(m) ==
  IF "files" \in DOMAIN m THEN {m.files[i].filename : i \in 1..Len(m.files)} ELSE {}

\* C6: postUpload writes the ledger only after every file of the message was
\* saved: whenever an upload changes the ledger, the message it adds has one
\* attachment for each file of the request, each of them on disk already, and
\* the request answers 201; an upload of which a file save failed ends there,
\* answering 500 with the ledger unchanged.
C6_LedgerAfterFiles ==
  [][\A r \in Slots :
       /\ (call[r].op = "upload" /\ pc[r] # "done" /\ ledger' # ledger)
            => /\ pc[r] = "write" /\ pc'[r] = "done" /\ res'[r].status = 201
               /\ LET ms == SafeReadMessages(ledger').val
                  IN /\ Len(ms) = Len(SafeReadMessages(ledger).val) + 1
                     /\ "files" \in DOMAIN ms[Len(ms)]
                     /\ Len(ms[Len(ms)].files) = Len(call[r].files)
                     /\ FileNames(ms[Len(ms)]) \subseteq disk
                     /\ FileNames(ms[Len(ms)]) \subseteq disk'
       /\ (call[r].op = "upload" /\ pc[r] = "save" /\ pc'[r] = "done")
            => (res'[r].status = 500 /\ ledger' = ledger)]_vars

\* C6 happens: an upload of two files has been added to the ledger after an
\* earlier upload failed at a file save and left a file that no message names.
C6_Witness ==
  /\ pc[1] = "done" /\ call[1].op = "upload" /\ res[1].status = 201
  /\ Len(call[1].files) = 2
  /\ Len(ReadAll) = 1
  /\ FileNames(ReadAll[1]) \subseteq disk
  /\ Cardinality(FileNames(ReadAll[1])) = 2
  /\ disk \ FileNames(ReadAll[1]) # {}

\* C7: referential consistency: after any sequence of postText, postUpload,
\* updateById and deleteMessage calls, with no crash and no file removed by
\* hand, every attachment of every message of the ledger names a file that is
\* in the shared directory.
C7_ReferentialConsistency ==
  (\A r \in Slots : pc[r] \in {"idle", "done"})
    => \A i \in 1..Len(ReadAll) : FileNames(ReadAll[i]) \subseteq disk

\* The files of the message that request r removed
Removed(r) == loc[r].entry[1]

\* C8: cascade delete: deleteMessage(id) of a message with attachments removes
\* that message, and only it, from the ledger, and when it answers, with 200
\* and the removed message, none of the message's files is left on disk; this
\* also when some of the files were removed by hand before or during the call.
C8_CascadeDelete ==
  [][\A r \in Slots :
       call[r].op = "delete" =>
         /\ (pc[r] = "write" /\ pc'[r] # "write")
              => /\ pc'[r] = "cascade"
                 /\ \E i \in 1..Len(loc[r].seen) :
                      /\ loc[r].seen[i].id = NumberOf(call[r].id).n
                      /\ loc[r].entry = <<loc[r].seen[i]>>
                      /\ SafeReadMessages(ledger').val
                           = [j \in 1..(Len(loc[r].seen) - 1) |->
                                IF j < i THEN loc[r].seen[j] ELSE loc[r].seen[j + 1]]
         /\ (pc[r] \in {"cascade", "unlink"} /\ pc'[r] = "done")
              => /\ res'[r].status = 200
                 /\ res'[r].data = <<Removed(r)>>
                 /\ FileNames(Removed(r)) \cap disk' = {}]_vars

\* C8 happens: the message with two attachments is out of the ledger, the
\* cascade is about to start, and the first of the two files was removed by
\* hand beforehand while the second is still there.
C8_Witness ==
  /\ pc[1] = "cascade" /\ call[1].op = "delete" /\ loc[1].k = 1
  /\ Len(RemovedFiles(1)) = 2
  /\ RemovedFiles(1)[1].filename \notin disk
  /\ RemovedFiles(1)[2].filename \in disk
  /\ \A i \in 1..Len(ReadAll) : ReadAll[i] # Removed(1)

\* C9: once deleteById has removed the ledger entry, deleteMessage answers 200
\* with the removed message whatever happens to the files: a failed file
\* deletion is logged, does not stop the cascade (every attachment is gone
\* through), leaves the ledger as deleteById wrote it, and every file of the
\* message still on disk at the answer is one whose deletion was logged as
\* failed.
C9_DeleteAlwaysSucceeds ==
  [][\A r \in Slots :
       (call[r].op = "delete" /\ pc[r] \in {"cascade", "unlink"})
         => /\ ledger' = ledger
            /\ pc'[r] \in {"cascade", "unlink", "done"}
            /\ loc'[r].entry = loc[r].entry
            /\ pc'[r] = "done"
                 => /\ res'[r].status = 200
                    /\ res'[r].data = <<Removed(r)>>
                    /\ loc[r].k = Len(RemovedFiles(r)) + 1
                    /\ Cardinality(FileNames(Removed(r)) \cap disk') <= loc[r].warned]_vars

\* C9 happens: the delete has answered 200 although the deletion of both
\* files failed, the first for its invalid stored name, the second for an
\* error of the file system; the second is still on disk, the message is out
\* of the ledger.
C9_Witness ==
  /\ pc[1] = "done" /\ call[1].op = "delete" /\ res[1].status = 200
  /\ Len(RemovedFiles(1)) = 2
  /\ loc[1].warned = 2
  /\ ~IsValidSharedFilename(Str(RemovedFiles(1)[1].filename))
  /\ RemovedFiles(1)[2].filename \in disk
  /\ ReadAll = <<>>

----------------------------------------------------------------------------
(* A ledger that is not an array of messages *)

\* C10: readAll never raises an error: GET /api/messages answers 200, with the
\* empty sequence when the ledger file is absent, blank, not JSON, or JSON that
\* is not an array, and with the stored array otherwise.
C10_ReadAllNeverThrows ==
  [][\A r \in Slots :
       (call[r].op = "list" /\ pc[r] = "ready" /\ pc'[r] = "done")
         => /\ res'[r].status = 200
            /\ res'[r].data = IF ledger.kind = "json" /\ ledger.isArray
                              THEN ledger.val ELSE <<>>]_vars

\* C10 happens: GET /api/messages has answered 200 with no message while the
\* ledger file holds what is not JSON.
C10_Witness ==
  /\ pc[1] = "done" /\ call[1].op = "list"
  /\ res[1].status = 200 /\ res[1].data = <<>>
  /\ ledger = Garbage

----------------------------------------------------------------------------
(* File names *)

\* The value is no string, is empty, holds '/' or '\', holds '..', starts with
\* '.', or is longer than 255 characters.
Defective(v) ==
  \/ v.t # "string"
  \/ v.s = <<>>
  \/ \E i \in 1..Len(v.s) : v.s[i] \in {"/", "\\"}
  \/ \E i \in 1..(Len(v.s) - 1) : v.s[i] = "." /\ v.s[i + 1] = "."
  \/ (v.s # <<>> /\ v.s[1] = ".")
  \/ Len(v.s) > 255

\* C11: getSharedFilePath, getFilePath and deleteSharedFile signal the
\* InvalidFilename error for every defective candidate name, return no path
\* then and touch no file; they accept every other name, one of exactly 255
\* characters included.
C11_InvalidFilename ==
  [][\A r \in Slots :
       (call[r].op \in {"resolve", "resolveFile", "deleteShared"}
          /\ pc[r] = "ready" /\ pc'[r] # "ready")
         => IF Defective(call[r].arg)
            THEN /\ pc'[r] = "done"
                 /\ res'[r].code = "EINVAL_FILENAME"
                 /\ res'[r].data = <<>>
                 /\ disk' = disk /\ ledger' = ledger
            ELSE pc'[r] = "done" => res'[r].code = ""]_vars

\* The operations that hand out, read or remove the file of a name
PathOps == {"resolve", "resolveFile", "deleteShared", "fileDelete", "fileGet"}

\* C12: whatever the name, a path that getSharedFilePath or getFilePath
\* returns, a file that deleteSharedFile or DELETE /api/files/:filename is
\* about to unlink or has unlinked, and a file that GET /shared/[filename]
\* has read, is an entry of the shared directory itself: its path is the
\* shared directory followed by one segment.
C12_InsideShared ==
  \A r \in Slots :
    call[r].op \in PathOps =>
      /\ (pc[r] \in {"sunlink", "funlink"} => InShared(loc[r].entry[1]))
      /\ (pc[r] = "done" /\ res[r].data # <<>> => InShared(res[r].data[1]))

\* C12: an uploaded file of the shared directory was removed by the DELETE
\* route
C12_Witness ==
  \E r \in Slots : /\ call[r].op = "fileDelete" /\ pc[r] = "done"
                    /\ res[r].status = 200
                    /\ res[r].data[1][Len(res[r].data[1])] # LedgerName
                    /\ res[r].data[1][Len(res[r].data[1])] \notin disk

----------------------------------------------------------------------------
(* Uploads                                                                  *)

\* C13: a save never returns a stored name that an earlier save returned: the
\* name saveFormFile writes to is the name of no file of the shared
\* directory, whatever the clock and Math.random give.
C13_UniqueStoredNames ==
  [][\A r \in Slots :
       (pc[r] = "save" /\ Len(loc'[r].uploaded) = Len(loc[r].uploaded) + 1)
         => loc'[r].uploaded[Len(loc'[r].uploaded)].filename \notin disk]_vars

\* C14: an upload with no file is answered 400 ('No files uploaded', an
\* answer of the route that carries no error code of the message store) by
\* the first step of the handler: no file is written, and the ledger is
\* neither read nor written.
C14_NoFiles ==
  [][\A r \in Slots :
       (call[r].op = "upload" /\ call[r].files = <<>>
          /\ pc[r] = "ready" /\ pc'[r] # "ready")
         => /\ pc'[r] = "done"
            /\ res'[r] = [status |-> 400, code |-> "", data |-> <<>>]
            /\ disk' = disk /\ ledger' = ledger /\ trail' = trail]_vars

\* C14: an upload with no file was answered while the shared directory held
\* files and a ledger
C14_Witness ==
  \E r \in Slots : /\ call[r].op = "upload" /\ call[r].files = <<>>
                    /\ pc[r] = "done" /\ res[r].status = 400
                    /\ disk # {} /\ ledger # NoFile

\* C15: an upload of files f1..fn saves them in the order of the request:
\* the k-th save writes one file and returns the attachment of fk (its
\* original name and size) after those of f1..f(k-1); and the 201 answer
\* comes with exactly one message added at the end of the ledger, whose files
\* are the n attachments the saves returned, in that order.
C15_UploadInOrder ==
  [][\A r \in Slots :
       call[r].op = "upload" =>
         /\ (pc[r] = "save" /\ loc'[r].uploaded # loc[r].uploaded)
              => LET k == Len(loc[r].uploaded) + 1
                     a == loc'[r].uploaded[k]
                 IN /\ k <= Len(call[r].files)
                    /\ Len(loc'[r].uploaded) = k
                    /\ SubSeq(loc'[r].uploaded, 1, k - 1) = loc[r].uploaded
                    /\ a.originalName = call[r].files[k].name
                    /\ a.size = call[r].files[k].size
                    /\ disk' = disk \cup {a.filename}
                    /\ ledger' = ledger
         /\ (pc[r] # "done" /\ pc'[r] = "done" /\ res'[r].status = 201)
              => LET before == SafeReadMessages(ledger).val
                     after == SafeReadMessages(ledger').val
                     m == after[Len(after)]
                 IN /\ Len(after) = Len(before) + 1
                    /\ SubSeq(after, 1, Len(before)) = before
                    /\ res'[r].data = <<m>>
                    /\ Len(m.files) = Len(call[r].files)
                    /\ m.files = loc[r].uploaded
                    /\ \A i \in 1..Len(m.files) :
                         m.files[i].originalName = call[r].files[i].name]_vars

\* C15: an upload of two files of different names has been answered 201 and
\* its message is the last of a ledger of two
C15_Witness ==
  \E r \in Slots :
    /\ call[r].op = "upload" /\ pc[r] = "done" /\ res[r].status = 201
    /\ Len(call[r].files) = 2
    /\ call[r].files[1].name # call[r].files[2].name
    /\ Len(ReadAll) = 2
    /\ Len(ReadAll[2].files) = 2
    /\ ReadAll[2].files[1].originalName = call[r].files[1].name
    /\ ReadAll[2].files[2].originalName = call[r].files[2].name

\* C16: the message of an upload answered 201 has for text the trimmed
\* caption when the caption is a string that is not blank; without such a
\* caption, the original name of the file when one file was uploaded, and
\* "<N> files" when N > 1 files were.
C16_DerivedCaption ==
  [][\A r \in Slots :
       (call[r].op = "upload" /\ pc[r] # "done" /\ pc'[r] = "done"
          /\ res'[r].status = 201)
         => LET n == Len(call[r].files)
                text == res'[r].data[1].text
            IN IF TrimmedOf(call[r].text) # <<>> THEN text = Trim(call[r].text.s)
               ELSE IF n = 1 THEN text = call[r].files[1].name
               ELSE text = DecimalString(n) \o <<" ", "f", "i", "l", "e", "s">>]_vars

----------------------------------------------------------------------------
(* appendMessageWithFiles                                                   *)

\* A call of appendMessageWithFiles by r returns a stored message
Stored(r) ==
  /\ call[r].op = "appendFiles" /\ pc[r] = "write" /\ pc'[r] = "done"
  /\ res'[r].data # <<>>
  /\ SafeReadMessages(ledger').val = Append(SafeReadMessages(ledger).val, res'[r].data[1])

\* C17 as stated: appendMessageWithFiles called with a text that is blank (or
\* no string) and a non-empty array of attachments stores a message whose text
\* is the original name of the attachment when there is one, and "<N> files"
\* when there are N > 1.
C17_StoreDerivesCaption ==
  [][\A r \in Slots :
       (Stored(r) /\ TrimmedOf(call[r].text) = <<>>)
         => LET n == Len(call[r].files)
            IN res'[r].data[1].text =
                 IF n = 1 THEN call[r].files[1].originalName
                 ELSE DecimalString(n) \o <<" ", "f", "i", "l", "e", "s">>]_vars

\* C17, amended: appendMessageWithFiles called with a text that is blank (or
\* no string) and a non-empty array of attachments stores a message whose text
\* is "Uploaded 1 file" when there is one attachment and "Uploaded <N> files"
\* when there are N > 1; the original names play no part.  With a text that
\* is not blank the stored text is the trimmed text.
C17_StoreFallbackCaption ==
  [][\A r \in Slots :
       /\ (call[r].op = "appendFiles" /\ pc[r] = "write" /\ pc'[r] # "write")
            => Stored(r)
       /\ Stored(r)
            => LET n == Len(call[r].files)
               IN /\ n >= 1
                  /\ res'[r].data[1].files = call[r].files
                  /\ res'[r].data[1].text =
                       IF TrimmedOf(call[r].text) # <<>> THEN Trim(call[r].text.s)
                       ELSE IF n = 1
                       THEN <<"U", "p", "l", "o", "a", "d", "e", "d", " ", "1",
                              " ", "f", "i", "l", "e">>
                       ELSE <<"U", "p", "l", "o", "a", "d", "e", "d", " ">>
                              \o DecimalString(n) \o <<" ", "f", "i", "l", "e", "s">>]_vars

\* C17: a call with a blank text and one attachment of original name "x" has
\* stored "Uploaded 1 file" after a message of two attachments
C17_Witness ==
  \E r \in Slots :
    /\ call[r].op = "appendFiles" /\ pc[r] = "done" /\ res[r].code = ""
    /\ call[r].text = Str(<<" ">>)
    /\ Len(call[r].files) = 1 /\ call[r].files[1].originalName = <<"x">>
    /\ Len(ReadAll) = 2
    /\ Len(ReadAll[1].files) = 2
    /\ ReadAll[2].text = <<"U", "p", "l", "o", "a", "d", "e", "d", " ", "1",
                           " ", "f", "i", "l", "e">>

\* C18: appendMessageWithFiles called with an empty array of attachments, or
\* with files that is no array, throws the error of code EINVAL_TEXT whatever
\* the text is, at its first step: the ledger is neither read nor written.
C18_NoAttachments ==
  [][\A r \in Slots :
       (call[r].op = "appendFiles" /\ pc[r] = "ready" /\ pc'[r] # "ready"
          /\ (call[r].arg.t # "array" \/ call[r].files = <<>>))
         => /\ pc'[r] = "done"
            /\ res'[r].code = "EINVAL_TEXT" /\ res'[r].data = <<>>
            /\ ledger' = ledger /\ trail' = trail /\ disk' = disk]_vars

\* C18: a call with a text and an empty array was refused when the ledger
\* held a message
C18_Witness ==
  \E r \in Slots :
    /\ call[r].op = "appendFiles" /\ pc[r] = "done" /\ res[r].code = "EINVAL_TEXT"
    /\ call[r].text = Str(<<"c", " ">>)
    /\ call[r].arg = Arr /\ call[r].files = <<>>
    /\ Len(ReadAll) = 1

----------------------------------------------------------------------------
(* Refused calls                                                            *)

\* C19: POST /api/messages (appendMessage) with a text that is no string, or
\* that is empty once trimmed, is answered 400 with the error of code
\* EINVAL_TEXT at its first step: the ledger is neither read nor written,
\* and the stored messages are as they were.
C19_InvalidText ==
  [][\A r \in Slots :
       (call[r].op = "postText" /\ pc[r] = "ready" /\ pc'[r] # "ready"
          /\ (call[r].text.t # "string" \/ Trim(call[r].text.s) = <<>>))
         => /\ pc'[r] = "done"
            /\ res'[r] = [status |-> 400, code |-> "EINVAL_TEXT", data |-> <<>>]
            /\ ledger' = ledger /\ trail' = trail
            /\ SafeReadMessages(ledger').val = SafeReadMessages(ledger).val]_vars

\* C19: a blank text was refused when the ledger held a message
C19_Witness ==
  \E r \in Slots :
    /\ call[r].op = "postText" /\ pc[r] = "done" /\ res[r].code = "EINVAL_TEXT"
    /\ call[r].text = Str(<<" ">>)
    /\ Len(ReadAll) >= 1

\* The ledger holds a message of the id that parameter id names
Known(id) == \E i \in 1..Len(ReadAll) : ReadAll[i].id = NumberOf(id).n

\* C20: PATCH /api/messages/:id (updateMessageById) is answered, in this
\* order of precedence: 400 EINVAL_ID when the id is no finite number; 400
\* EINVAL_TEXT when neither text nor note is given, and when a text is given
\* that is no string or is blank once trimmed, a valid note with it or not;
\* 404 ENOENT when no message of the ledger has the id.  In each of these
\* cases the ledger is left as it was.
C20_UpdateErrors ==
  [][\A r \in Slots :
       (call[r].op = "update" /\ pc[r] = "ready" /\ pc'[r] # "ready")
         => LET hasText == call[r].text.t # "undefined"
                hasNote == call[r].note.t # "undefined"
                blank == call[r].text.t # "string" \/ Trim(call[r].text.s) = <<>>
                Refused(status, code) ==
                  /\ pc'[r] = "done"
                  /\ res'[r] = [status |-> status, code |-> code, data |-> <<>>]
                  /\ ledger' = ledger
            IN IF ~NumberOf(call[r].id).finite THEN Refused(400, "EINVAL_ID")
               ELSE IF (~hasText /\ ~hasNote) \/ (hasText /\ blank)
               THEN Refused(400, "EINVAL_TEXT")
               ELSE IF ~Known(call[r].id) THEN Refused(404, "ENOENT")
               ELSE pc'[r] = "write"]_vars

\* C20: an update of a stored message with a blank text and a valid note
\* was refused
C20_Witness ==
  \E r \in Slots :
    /\ call[r].op = "update" /\ pc[r] = "done" /\ res[r].code = "EINVAL_TEXT"
    /\ call[r].text = Str(<<" ">>) /\ call[r].note = Str(<<"n">>)
    /\ Known(call[r].id)

----------------------------------------------------------------------------
(* Updates and deletions of messages                                        *)

\* Message m carries a note that is no string, or is empty once trimmed
BlankNote(m) ==
  "note" \in DOMAIN m /\ (m.note.t # "string" \/ Trim(m.note.s) = <<>>)

\* C21: an update that is given a note that is blank once trimmed (and a
\* text that is absent or not blank) for a stored message does not fail: it
\* goes on to its write and answers 200, and the record it writes and
\* returns has no note field, whether or not the message had a note; and
\* whatever the calls made, no message of the ledger carries a note that is
\* empty or white space only.
C21_BlankNoteRemoved ==
  [][/\ \A r \in Slots :
          (call[r].op = "update" /\ call[r].note.t # "undefined"
             /\ (call[r].note.t # "string" \/ Trim(call[r].note.s) = <<>>))
            => /\ (pc[r] = "ready" /\ pc'[r] # "ready"
                     /\ NumberOf(call[r].id).finite /\ Known(call[r].id)
                     /\ (call[r].text.t = "undefined"
                           \/ (call[r].text.t = "string" /\ Trim(call[r].text.s) # <<>>)))
                    => pc'[r] = "write"
               /\ (pc[r] = "write" /\ pc'[r] # "write")
                    => /\ pc'[r] = "done" /\ res'[r].status = 200
                       /\ "note" \notin DOMAIN res'[r].data[1]
                       /\ \E i \in 1..Len(SafeReadMessages(ledger').val) :
                            SafeReadMessages(ledger').val[i] = res'[r].data[1]
     /\ \A i \in 1..Len(SafeReadMessages(ledger').val) :
          ~BlankNote(SafeReadMessages(ledger').val[i])]_vars

\* C21: a blank note was given to a message that carried a note, and the
\* message is stored without one
C21_Witness ==
  \E r \in Slots :
    /\ call[r].op = "update" /\ pc[r] = "done" /\ res[r].status = 200
    /\ call[r].note = Str(<<" ">>)
    /\ Len(loc[r].seen) = 1 /\ "note" \in DOMAIN loc[r].seen[1]
    /\ Len(ReadAll) = 1 /\ "note" \notin DOMAIN ReadAll[1]

\* Field key of message a is as it is in message b: absent of both, or of the
\* same value
Same(a, b, key) ==
  /\ key \in DOMAIN a <=> key \in DOMAIN b
  /\ key \in DOMAIN a => a[key] = b[key]

\* C22: an update answered 200 leaves the ledger with as many messages as it
\* had; every message but the first of the given id is as it was; of that one
\* the id, createdAt and files are as they were, and so is the text when no
\* text was given and the note when no note was given; a given text is stored
\* trimmed; the record returned is the one stored.
C22_UpdateFrame ==
  [][\A r \in Slots :
       (call[r].op = "update" /\ pc[r] = "write" /\ pc'[r] = "done"
          /\ res'[r].status = 200)
         => LET before == SafeReadMessages(ledger).val
                after == SafeReadMessages(ledger').val
                n == NumberOf(call[r].id).n
                i == CHOOSE k \in 1..Len(before) :
                       before[k].id = n /\ \A j \in 1..(k - 1) : before[j].id # n
            IN /\ Len(after) = Len(before)
               /\ \E k \in 1..Len(before) : before[k].id = n
               /\ \A j \in 1..Len(before) : j # i => after[j] = before[j]
               /\ DOMAIN after[i] \ {"note"} = DOMAIN before[i] \ {"note"}
               /\ Same(after[i], before[i], "id")
               /\ Same(after[i], before[i], "createdAt")
               /\ Same(after[i], before[i], "files")
               /\ (call[r].text.t = "undefined" => Same(after[i], before[i], "text"))
               /\ (call[r].note.t = "undefined" => Same(after[i], before[i], "note"))
               /\ (call[r].text.t # "undefined" => after[i].text = Trim(call[r].text.s))
               /\ res'[r].data = <<after[i]>>]_vars

\* C22: the text of the first of two messages, an upload, was updated: its
\* files are there and a second message stands after it
C22_Witness ==
  \E r \in Slots :
    /\ call[r].op = "update" /\ pc[r] = "done" /\ res[r].status = 200
    /\ call[r].text.t = "string" /\ call[r].note.t = "undefined"
    /\ Len(ReadAll) = 2
    /\ ReadAll[1].id = NumberOf(call[r].id).n
    /\ ReadAll[1].text = Trim(call[r].text.s)
    /\ "files" \in DOMAIN ReadAll[1]
    /\ ReadAll[2].id # ReadAll[1].id

\* C23: a deletion that succeeds takes Number(id), writes the ledger it read
\* without one message, the first whose id is that number, the others as they
\* were and in their order, and returns the removed record as it was stored,
\* its files included; the route answers 200 with that record.
C23_DeleteOne ==
  [][\A r \in Slots :
       call[r].op = "delete" =>
         /\ (pc[r] = "write" /\ pc'[r] # "write")
              => LET before == SafeReadMessages(ledger).val
                     after == SafeReadMessages(ledger').val
                     n == NumberOf(call[r].id).n
                 IN /\ NumberOf(call[r].id).finite
                    /\ Len(after) = Len(before) - 1
                    /\ \E i \in 1..Len(before) :
                         /\ before[i].id = n
                         /\ \A j \in 1..(i - 1) : before[j].id # n
                         /\ after = SubSeq(before, 1, i - 1) \o SubSeq(before, i + 1, Len(before))
                         /\ loc'[r].entry = <<before[i]>>
         /\ (pc[r] = "cascade" /\ pc'[r] = "done")
              => /\ res'[r].status = 200
                 /\ res'[r].data = loc[r].entry
                 /\ ledger' = ledger]_vars

\* C23: the first of two messages, an upload of two files, was deleted and
\* returned with its two files; the second message is what the ledger holds
C23_Witness ==
  \E r \in Slots :
    /\ call[r].op = "delete" /\ pc[r] = "done" /\ res[r].status = 200
    /\ res[r].data[1].id = NumberOf(call[r].id).n
    /\ "files" \in DOMAIN res[r].data[1] /\ Len(res[r].data[1].files) = 2
    /\ Len(loc[r].seen) = 2 /\ loc[r].seen[1] = res[r].data[1]
    /\ ReadAll = <<loc[r].seen[2]>>

\* C24: DELETE /api/messages/:id is answered 400 EINVAL_ID when Number(id) is
\* not finite and 404 ENOENT when it is finite and no message of the ledger
\* has it, the ledger and the files of the shared directory left as they
\* were; and once a deletion of an id has rewritten the ledger no message has
\* that id, so that a second deletion of the same id is answered 404.
C24_DeleteErrors ==
  [][\A r \in Slots :
       call[r].op = "delete" =>
         /\ (pc[r] = "ready" /\ pc'[r] # "ready" /\ ~NumberOf(call[r].id).finite)
              => /\ pc'[r] = "done"
                 /\ res'[r] = [status |-> 400, code |-> "EINVAL_ID", data |-> <<>>]
                 /\ ledger' = ledger /\ disk' = disk
         /\ (pc[r] = "ready" /\ pc'[r] # "ready" /\ NumberOf(call[r].id).finite
               /\ ~Known(call[r].id))
              => /\ pc'[r] = "done"
                 /\ res'[r] = [status |-> 404, code |-> "ENOENT", data |-> <<>>]
                 /\ ledger' = ledger /\ disk' = disk
         /\ (pc[r] = "write" /\ pc'[r] # "write")
              => \A i \in 1..Len(SafeReadMessages(ledger').val) :
                   SafeReadMessages(ledger').val[i].id # NumberOf(call[r].id).n]_vars

\* C25: whatever appends, uploads, updates and deletions were made, every
\* message of the ledger has a text that is not empty and has no white space
\* around it, or files; and the files of a message that has the field are a
\* sequence that is not empty.
C25_TextOrFiles ==
  \A i \in 1..Len(ReadAll) :
    LET m == ReadAll[i]
    IN /\ \/ ("text" \in DOMAIN m /\ m.text # <<>> /\ Trim(m.text) = m.text)
          \/ ("files" \in DOMAIN m /\ Len(m.files) >= 1)
       /\ "files" \in DOMAIN m => Len(m.files) >= 1

\* C25: the ledger holds an upload and a text-only message whose text an
\* update has just replaced
C25_Witness ==
  /\ Len(ReadAll) = 2
  /\ "files" \in DOMAIN ReadAll[1] /\ "files" \notin DOMAIN ReadAll[2]
  /\ \E r \in Slots :
       /\ call[r].op = "update" /\ pc[r] = "done" /\ res[r].status = 200
       /\ call[r].text.t = "string"
       /\ res[r].data = <<ReadAll[2]>>

----------------------------------------------------------------------------
(* Deletion and listing of files                                            *)

\* C26: deleteSharedFile called with a valid name returns false, and throws
\* nothing, when the file is absent at its existence check, and also when the
\* file has vanished between that check and the unlink; when the file is
\* there it either unlinks it and returns true, or throws the error of the
\* unlink that failed, the file left in place.  (true is the path unlinked as
\* data, false is no data and no code, a throw is a code.)
C26_DeleteSharedFile ==
  [][\A r \in Slots :
       (call[r].op = "deleteShared" /\ ~Defective(call[r].arg)) =>
         LET p == PathJoin(SharedDir, call[r].arg.s)
             False == /\ pc'[r] = "done"
                      /\ res'[r].code = "" /\ res'[r].data = <<>>
                      /\ disk' = disk /\ ledger' = ledger
             True == /\ pc'[r] = "done"
                     /\ res'[r].code = "" /\ res'[r].data = <<p>>
                     /\ ~ExistsSync(p, disk', ledger')
                     /\ disk' \subseteq disk
                     /\ \A name \in disk \ disk' : name = p[Len(p)]
             Thrown == /\ pc'[r] = "done"
                       /\ res'[r].code \notin {"", "ENOENT"} /\ res'[r].data = <<>>
                       /\ disk' = disk /\ ledger' = ledger
         IN /\ (pc[r] = "ready" /\ pc'[r] # "ready")
                 => IF ExistsSync(p, disk, ledger)
                    THEN pc'[r] = "sunlink" /\ disk' = disk /\ ledger' = ledger
                    ELSE False
            /\ (pc[r] = "sunlink" /\ pc'[r] # "sunlink")
                 => IF ExistsSync(p, disk, ledger) THEN True \/ Thrown ELSE False]_vars

\* C26: a file that was there at the existence check was removed by hand
\* before the unlink, and deleteSharedFile has returned false
C26_Witness ==
  \E r \in Slots :
    /\ call[r].op = "deleteShared" /\ pc[r] = "done"
    /\ res[r].code = "" /\ res[r].data = <<>>
    /\ loc[r].entry # <<>>
    /\ loc[r].entry[1][Len(loc[r].entry[1])] \notin disk
    /\ loc[r].entry[1][Len(loc[r].entry[1])] # LedgerName

\* C27: DELETE /api/files/:filename, of the name req.params.filename: a name
\* that is defective (no string, empty, with a separator, with '..', with a
\* leading dot, longer than 255) is answered 400 with no look at the shared
\* directory; a name without defect of which the directory has no file is
\* answered 404; a name whose file is there has the file unlinked and is
\* answered 200 (404 if the file has gone since the existence check), so that
\* a second DELETE of the name is answered 404.
C27_FileDeleteAnswers ==
  [][\A r \in Slots :
       call[r].op = "fileDelete" =>
         LET p == PathJoin(SharedDir, call[r].arg.s)
             Answer(status) == /\ pc'[r] = "done" /\ res'[r].status = status
                               /\ disk' = disk /\ ledger' = ledger
         IN /\ (pc[r] = "ready" /\ pc'[r] # "ready")
                 => IF Defective(call[r].arg) THEN Answer(400)
                    ELSE IF ~ExistsSync(p, disk, ledger) THEN Answer(404)
                    ELSE pc'[r] = "funlink" /\ loc'[r].entry = <<p>>
            /\ (pc[r] = "funlink" /\ pc'[r] # "funlink")
                 => IF ~ExistsSync(p, disk, ledger) THEN Answer(404)
                    ELSE /\ pc'[r] = "done" /\ res'[r].status = 200
                         /\ ~ExistsSync(p, disk', ledger')]_vars

\* C28: a DELETE /api/files/:filename that unlinks a file unlinks the file
\* whose name is :filename itself, one of the names GET /api/files would
\* have returned; messages.json is not among those names, and no DELETE
\* /api/files request removes or changes the ledger.
C28_DeleteOnlyListed ==
  [][\A r \in Slots :
       (call[r].op = "fileDelete" /\ pc[r] # "done" /\ pc'[r] # pc[r])
         => /\ ledger' = ledger
            /\ \A name \in disk \ disk' :
                 /\ name = call[r].arg.s
                 /\ name \in NotLedger(ListFiles(disk, ledger, dirExists).names)]_vars

\* C29: GET /shared and GET /api/files answer 200 with the names of all
\* entries of the shared directory but messages.json, which is never among
\* them, and with the empty list when the shared directory does not exist.
C29_Listing ==
  [][\A r \in Slots :
       (call[r].op \in {"fileList", "sharedList"} /\ pc[r] = "ready" /\ pc'[r] # "ready")
         => /\ pc'[r] = "done" /\ res'[r].status = 200
            /\ res'[r].data = <<IF dirExists THEN disk ELSE {}>>
            /\ LedgerName \notin res'[r].data[1]
            /\ disk' = disk /\ ledger' = ledger]_vars

----------------------------------------------------------------------------
(* Error codes and HTTP statuses *)

\* The request of slot r named no file.
NoFiles(r) == call[r].op \in {"upload", "fileUpload"} /\ Len(call[r].files) = 0

\* The request of slot r is refused by the validation of its route.
InvalidInput(r) ==
  \/ call[r].op = "postText" /\ TrimmedOf(call[r].text) = <<>>
  \/ call[r].op \in {"update", "delete"} /\ ~NumberOf(call[r].id).finite
  \/ /\ call[r].op = "update"
     /\ \/ call[r].text.t = "undefined" /\ call[r].note.t = "undefined"
        \/ call[r].text.t # "undefined" /\ TrimmedOf(call[r].text) = <<>>
  \/ NoFiles(r)

\* C30: every answered request whose handler met an error has the status of
\* the error's code: EINVAL_TEXT, EINVAL_ID and EINVAL_FILENAME 400, ENOENT
\* 404, no file in an upload 400, any other failure 500; a request with
\* invalid input is answered 400, never 500, and a 400 or 404 is only given
\* for one of these codes or for an upload without files.
C30_StatusByCode ==
  \A r \in Slots :
    (pc[r] = "done" /\ res[r].status # 0)
      => /\ res[r].status \in {200, 201, 400, 404, 500}
         /\ res[r].code \in {"EINVAL_TEXT", "EINVAL_ID", "EINVAL_FILENAME"}
              => res[r].status = 400
         /\ res[r].code = "ENOENT" => res[r].status = 404
         /\ InvalidInput(r) => res[r].status = 400
         /\ res[r].status \in {400, 404}
              => \/ res[r].code \in {"EINVAL_TEXT", "EINVAL_ID", "EINVAL_FILENAME", "ENOENT"}
                 \/ NoFiles(r)
         /\ res[r].status = 500
              => res[r].code \notin {"EINVAL_TEXT", "EINVAL_ID", "EINVAL_FILENAME", "ENOENT"}
         /\ res[r].code \in {"ENOSPC", "EACCES"} => res[r].status = 500

C30_Witness ==
  /\ pc[1] = "done" /\ call[1].op = "update"
  /\ res[1].code = "ENOENT" /\ res[1].status = 404

----------------------------------------------------------------------------
(* Attachments and their files *)

\* The attachments of the messages of a ledger file
AttachmentsIn(file) ==
  LET ms == SafeReadMessages(file).val
  IN UNION {IF "files" \in DOMAIN ms[i]
            THEN {ms[i].files[k] : k \in 1..Len(ms[i].files)} ELSE {} : i \in 1..Len(ms)}

\* The attachments saveFormFile has returned to the requests under way
Saved(locals) ==
  UNION {{locals[r].uploaded[k] : k \in 1..Len(locals[r].uploaded)} : r \in Slots}

\* C31: every attachment saveFormFile has returned and every attachment of
\* the ledger has the url "/shared/" followed by its percent-encoded
\* filename, and no step changes an attachment: an attachment of the ledger
\* after a step was in the ledger before it, or is one that saveFormFile
\* returned to the upload that writes it.
C31_AttachmentUrl ==
  [][/\ \A a \in AttachmentsIn(ledger') \cup Saved(loc') :
          a.url = <<"/", "s", "h", "a", "r", "e", "d", "/">> \o EncodeURIComponent(a.filename)
     /\ AttachmentsIn(ledger') \subseteq AttachmentsIn(ledger) \cup Saved(loc)]_vars

C31_Witness ==
  \E r \in Slots :
    /\ call[r].op = "update" /\ pc[r] = "done" /\ res[r].status = 200
    /\ "files" \in DOMAIN res[r].data[1]
    /\ AttachmentsIn(ledger) # {}

\* C32: DELETE /api/messages/:id unlinks a file only after deleteMessageById
\* has written the ledger without the message: at every step of a deletion
\* that takes a file from the disk, the ledger holds the list the request
\* read less the removed message, and the file is one of that message's; a
\* deletion answered 400 or 404 has ended at deleteMessageById, with the disk
\* and the ledger as they were.
C32_EntryBeforeFiles ==
  [][\A r \in Slots :
       (call[r].op = "delete" /\ pc[r] \notin {"idle", "done"}
          /\ (pc'[r] # pc[r] \/ loc'[r] # loc[r]))
         => /\ disk' # disk
                 => /\ pc[r] = "unlink"
                    /\ SafeReadMessages(ledger).val = loc[r].messages
                    /\ Len(loc[r].messages) = Len(loc[r].seen) - 1
                    /\ disk \ disk' \subseteq FileNames(loc[r].entry[1])
                    /\ \A i \in 1..Len(loc[r].messages) :
                         loc[r].messages[i] \in {loc[r].seen[k] : k \in 1..Len(loc[r].seen)}
            /\ (pc'[r] = "done" /\ res'[r].status \in {400, 404})
                 => pc[r] = "ready" /\ disk' = disk /\ ledger' = ledger]_vars

C32_Witness ==
  \E r \in Slots :
    /\ call[r].op = "delete" /\ pc[r] = "cascade" /\ loc[r].k = 2
    /\ FileNames(loc[r].entry[1]) # {}
    /\ FileNames(loc[r].entry[1]) \cap disk # FileNames(loc[r].entry[1])
    /\ Len(SafeReadMessages(ledger).val) = Len(loc[r].seen) - 1
    /\ \E q \in Slots \ {r} : pc[q] = "save"

\* The names of the files the messages of the ledger refer to
Referenced(file) == {a.filename : a \in AttachmentsIn(file)}

\* C33: a deletion takes from the disk only files of the message it removed:
\* every step of its cascade leaves the ledger file as it is, removes no
\* file that is not an attachment of the removed message, and removes no
\* file a message still in the ledger refers to.
C33_OnlyOwnFiles ==
  [][\A r \in Slots :
       (call[r].op = "delete" /\ pc[r] \in {"cascade", "unlink"}
          /\ (pc'[r] # pc[r] \/ loc'[r] # loc[r]))
         => /\ ledger' = ledger
            /\ disk \ disk' \subseteq FileNames(loc[r].entry[1])
            /\ (disk \ disk') \cap Referenced(ledger) = {}]_vars

\* C34: whatever the display name of an uploaded file, the name saveFormFile
\* stores it under is a valid file name: it is not empty, holds no '/', no
\* '\' and no '..', does not start with '.', has at most 255 characters and
\* is not messages.json; getSharedFilePath resolves it, and the deletion of
\* the message finds no name to complain about and leaves none of the
\* message's files on disk.
C34_StoredNamesValid ==
  [][\A r \in Slots :
       /\ (pc[r] = "save" /\ Len(loc'[r].uploaded) = Len(loc[r].uploaded) + 1)
            => LET n == loc'[r].uploaded[Len(loc'[r].uploaded)].filename
               IN /\ n # <<>> /\ n[1] # "."
                  /\ \A i \in 1..Len(n) : n[i] \notin {"/", "\\"}
                  /\ \A i \in 1..(Len(n) - 1) : ~(n[i] = "." /\ n[i + 1] = ".")
                  /\ Len(n) <= 255
                  /\ n # LedgerName
                  /\ ~GetSharedFilePath(Str(n)).threw
                  /\ n \in disk'
       /\ (call[r].op = "delete" /\ pc[r] # "done" /\ pc'[r] = "done"
             /\ res'[r].status = 200)
            => /\ loc[r].warned = 0
               /\ FileNames(loc[r].entry[1]) \cap disk' = {}
               /\ ledger' # NoFile]_vars

\* C34: the message of an upload of a file with a display name of 256
\* characters has been deleted, and its file with it
C34_Witness ==
  \E r \in Slots :
    /\ call[r].op = "delete" /\ pc[r] = "done" /\ res[r].status = 200
    /\ "files" \in DOMAIN res[r].data[1]
    /\ Len(res[r].data[1].files[1].originalName) > 255
    /\ Len(res[r].data[1].files[1].filename) <= 255
    /\ disk = {}

----------------------------------------------------------------------------
(* A corrupt ledger, failed uploads *)

\* The content of the ledger file is not JSON, or is JSON but no array.
Corrupt(file) == file.kind = "garbage" \/ (file.kind = "json" /\ ~file.isArray)

\* C35: with a ledger that is not JSON or not an array, appendMessage and
\* appendMessageWithFiles read no message and go on to write an array of the
\* new message alone, and their write leaves the ledger a JSON array of
\* exactly the messages they built, answered 201; updateMessageById and
\* deleteMessageById (valid fields, finite id) answer 404 ENOENT and leave
\* the ledger file as it is.
C35_CorruptLedger ==
  [][\A r \in Slots :
       /\ (Corrupt(ledger) /\ pc'[r] # pc[r]
             /\ \/ call[r].op = "postText" /\ pc[r] = "ready"
                \/ call[r].op = "upload" /\ pc[r] = "append")
            => /\ pc'[r] = "write"
               /\ Len(loc'[r].messages) = 1
               /\ loc'[r].messages = loc'[r].entry
               /\ ledger' = ledger
       /\ (call[r].op \in {"postText", "upload"} /\ pc[r] = "write" /\ pc'[r] # "write")
            => /\ pc'[r] = "done" /\ res'[r].status = 201
               /\ ledger'.kind = "json" /\ ledger'.isArray
               /\ ledger'.val = loc[r].messages
               /\ res'[r].data = loc[r].entry
       /\ (Corrupt(ledger) /\ call[r].op \in {"update", "delete"}
             /\ pc[r] = "ready" /\ pc'[r] # "ready")
            => /\ pc'[r] = "done"
               /\ res'[r].status = 404 /\ res'[r].code = "ENOENT"
               /\ ledger' = ledger /\ disk' = disk]_vars

\* C35: an append stands between its read and its write: the ledger file is
\* not an array, the append has read no message from it and is about to
\* write the array of its message alone
C35_Witness ==
  \E r \in Slots :
    /\ call[r].op \in {"postText", "upload"} /\ pc[r] = "write"
    /\ Corrupt(ledger)
    /\ loc[r].seen = <<>> /\ Len(loc[r].messages) = 1

\* The names of the files saveFormFile has saved for request r
SavedNames(r) == {loc[r].uploaded[k].filename : k \in 1..Len(loc[r].uploaded)}

\* C36: an upload that ends without its message written, after a save that
\* failed, a ledger write that failed or the death of the process, leaves
\* the files it had saved on disk and the ledger with the messages it held:
\* no step of the upload before its write changes the ledger file, and the
\* step that ends it in failure leaves the saved files and the messages of
\* the ledger as they were.
C36_FailedUpload ==
  [][\A r \in Slots :
       (call[r].op = "upload" /\ pc[r] \in {"ready", "save", "append", "write"}
          /\ pc'[r] # pc[r])
         => /\ pc[r] # "write" => ledger' = ledger
            /\ (pc'[r] = "done" /\ res'[r].status # 201 /\ pc[r] # "ready")
                 => /\ SavedNames(r) \subseteq disk'
                    /\ SafeReadMessages(ledger').val = SafeReadMessages(ledger).val]_vars

----------------------------------------------------------------------------
(* ChatInput: the pure functions *)

\* const MAX_FILES = 20
MAX_FILES == 20

\* fileKey(file): `${file.name}__${file.size}__${file.lastModified}`
fileKey(file) ==
  file.name \o <<"_", "_">> \o DecimalString(file.size)
    \o <<"_", "_">> \o DecimalString(file.lastModified)

\* prev.map((x) => x.key), as a set
KeysOf(entries) == {entries[i].key : i \in 1..Len(entries)}

\* The i-th smallest id that no entry of prev has
FreshId(prev, i) ==
  LET free == (1..(Len(prev) + i)) \ {prev[j].id : j \in 1..Len(prev)}
  IN CHOOSE x \in free : Cardinality({y \in free : y < x}) = i - 1

\* files.map((file) => ({id: makeId(file), file, key: fileKey(file), ...})):
\* makeId returns an id no entry has (crypto.randomUUID()); the preview URL
\* of an entry is left out, nothing reads it but the preview strip.
NewEntries(prev, files) ==
  [i \in 1..Len(files) |->
     [id |-> FreshId(prev, i), file |-> files[i], key |-> fileKey(files[i])]]

\* The loop of the updater of handleFileChange over newEntries, from the
\* entry at position i on: filtered grows by the entries whose key is not in
\* existingKeys while remaining > 0.
RECURSIVE FilterEntries(_, _, _, _, _)
FilterEntries(newEntries, i, existingKeys, filtered, remaining) ==
  IF i > Len(newEntries) THEN filtered
  ELSE IF remaining <= 0
  THEN FilterEntries(newEntries, i + 1, existingKeys, filtered, remaining)
  ELSE IF newEntries[i].key \notin existingKeys
  THEN FilterEntries(newEntries, i + 1, existingKeys \cup {newEntries[i].key},
                     Append(filtered, newEntries[i]), remaining - 1)
  ELSE FilterEntries(newEntries, i + 1, existingKeys, filtered, remaining)

\* An updater that tests the keys against prev only and applies no limit
AppendUnseen(prev, newEntries) ==
  prev \o SelectSeq(newEntries, LAMBDA e : e.key \notin KeysOf(prev))

\* The updater handed to setSelectedFiles by handleFileChange
AppendSelected(prev, newEntries) ==
  IF Len(prev) >= MAX_FILES THEN prev
  ELSE prev \o FilterEntries(newEntries, 1, KeysOf(prev), <<>>, MAX_FILES - Len(prev))

\* hasSomethingToSend
HasSomethingToSend(c) ==
  IF Len(c.selectedFiles) > 0 THEN TRUE ELSE Len(Trim(c.text)) > 0

----------------------------------------------------------------------------
(* ChatInput: the handlers.  An event handler is a task of the browser: it  *)
(* runs when no microtask is queued.  What follows an await and what        *)
(* queueMicrotask queued are microtasks: they run before the next task.  A  *)
(* handler is taken as callable whatever the disabled attributes of the     *)
(* rendered elements say.  onSend is given.                                 *)

\* The variables of the message store and of its handlers
storeVars ==
  <<ledger, disk, now, pc, call, loc, res, cpu, nreq, hist, lastPost, trail, dirExists>>

\* No microtask of handleSend is queued
Quiet == \A c \in SendCalls : sends[c].pc \notin {"resumed", "microtask"}

\* onSend(payload) is called by call c of handleSend: an onSend that returns
\* a promise leaves the call at its await until the promise settles; one
\* that returns nothing, or throws, has settled when it returns
Awaited(c, payload, onSend) ==
  [sends EXCEPT ![c] =
     [pc |-> IF onSend = "promise" THEN "await" ELSE "resumed",
      payload |-> payload,
      outcome |-> IF onSend = "promise" THEN "none"
                  ELSE IF onSend = "void" THEN "resolved" ELSE "rejected"]]

\* The files handed to onSend: selectedFilesRef.current.map((x) => x.file)
FilesOf(entries) == [i \in 1..Len(entries) |-> entries[i].file]

\* handleSend() without the test of sendingRef.current
HandleSendUnlocked(c, onSend) ==
  IF ~HasSomethingToSend(chat)
  THEN did' = [op |-> "handleSend", arg |-> <<"nothing">>] /\ UNCHANGED <<chat, sends>>
  ELSE /\ chat' = [chat EXCEPT !.sendingRef = TRUE, !.isSending = TRUE]
       /\ sends' = Awaited(c, IF Len(chat.selectedFiles) > 0
                              THEN [kind |-> "files", value |-> FilesOf(chat.selectedFiles)]
                              ELSE [kind |-> "text", value |-> Trim(chat.text)],
                           onSend)
       /\ did' = [op |-> "handleSend", arg |-> <<"onSend">>]

\* handleSend(), call c of it, up to its await: the three tests, the lock,
\* setIsSending(true) and the call of onSend; with nothing but white space
\* to send it returns under the lock, through its finally block
HandleSend(c, onSend) ==
  IF chat.sendingRef
  THEN did' = [op |-> "handleSend", arg |-> <<"locked">>] /\ UNCHANGED <<chat, sends>>
  ELSE IF ~HasSomethingToSend(chat)
  THEN did' = [op |-> "handleSend", arg |-> <<"nothing">>] /\ UNCHANGED <<chat, sends>>
  ELSE IF Len(chat.selectedFiles) > 0
  THEN /\ chat' = [chat EXCEPT !.sendingRef = TRUE, !.isSending = TRUE]
       /\ sends' = Awaited(c, [kind |-> "files", value |-> FilesOf(chat.selectedFiles)],
                           onSend)
       /\ did' = [op |-> "handleSend", arg |-> <<"onSend">>]
  ELSE IF Trim(chat.text) = <<>>
  THEN /\ chat' = [chat EXCEPT !.sendingRef = TRUE, !.isSending = FALSE]
       /\ sends' = [sends EXCEPT ![c] = [NoSend EXCEPT !.pc = "microtask"]]
       /\ did' = [op |-> "handleSend", arg |-> <<"nothing">>]
  ELSE /\ chat' = [chat EXCEPT !.sendingRef = TRUE, !.isSending = TRUE]
       /\ sends' = Awaited(c, [kind |-> "text", value |-> Trim(chat.text)], onSend)
       /\ did' = [op |-> "handleSend", arg |-> <<"onSend">>]

\* onKeyDown(e): Enter outside a composition calls handleSend
OnKeyDown(c, key, isComposing, onSend) ==
  /\ Quiet /\ sends[c].pc = "idle"
  /\ IF key = "Enter" /\ ~isComposing
     THEN HandleSend(c, onSend)
     ELSE did' = [op |-> "onKeyDown", arg |-> <<key>>] /\ UNCHANGED <<chat, sends>>
  /\ UNCHANGED storeVars

\* onClick of the send button
Click(c, onSend) ==
  /\ Quiet /\ sends[c].pc = "idle"
  /\ HandleSend(c, onSend)
  /\ UNCHANGED storeVars

\* The promise that onSend returned settles: the rest of handleSend is queued
Settle(c, outcome) ==
  /\ Quiet /\ sends[c].pc = "await"
  /\ sends' = [sends EXCEPT ![c].pc = "resumed", ![c].outcome = outcome]
  /\ UNCHANGED <<chat, did, storeVars>>

\* What the try block of handleSend does after its await
AfterOnSend(c, s) ==
  IF s.outcome # "resolved" THEN c
  ELSE IF s.payload.kind = "files"
  THEN [c EXCEPT !.selectedFiles = <<>>, !.text = <<>>]
  ELSE [c EXCEPT !.text = <<>>]

\* handleSend after its await with a finally block that runs only when
\* onSend resolved
ResumeNoFinally(c) ==
  /\ sends[c].pc = "resumed"
  /\ IF sends[c].outcome = "resolved"
     THEN /\ chat' = [AfterOnSend(chat, sends[c]) EXCEPT !.isSending = FALSE]
          /\ sends' = [sends EXCEPT ![c].pc = "microtask"]
     ELSE /\ sends' = [sends EXCEPT ![c] = NoSend]
          /\ UNCHANGED chat
  /\ UNCHANGED <<did, storeVars>>

\* handleSend, call c, after its await: the rest of the try block when
\* onSend resolved, then the finally block
Resume(c) ==
  /\ sends[c].pc = "resumed"
  /\ chat' = [AfterOnSend(chat, sends[c]) EXCEPT !.isSending = FALSE]
  /\ sends' = [sends EXCEPT ![c].pc = "microtask"]
  /\ UNCHANGED <<did, storeVars>>

\* The microtask queued by the finally block: sendingRef.current = false
QueuedMicrotask(c) ==
  /\ sends[c].pc = "microtask"
  /\ chat' = [chat EXCEPT !.sendingRef = FALSE]
  /\ sends' = [sends EXCEPT ![c] = NoSend]
  /\ did' = [op |-> "released", arg |-> <<sends[c].outcome>>]
  /\ UNCHANGED storeVars

\* handleFileChange(e), e.currentTarget.files being files
HandleFileChange(files) ==
  /\ Quiet
  /\ IF Len(files) = 0
     THEN UNCHANGED chat
     ELSE chat' = [chat EXCEPT !.selectedFiles = AppendSelected(@, NewEntries(@, files))]
  /\ did' = [op |-> "handleFileChange", arg |-> files]
  /\ UNCHANGED <<sends, storeVars>>

\* handleInputChange(e), e.currentTarget.value being value
HandleInputChange(value) ==
  /\ Quiet
  /\ IF chat.isSending
     THEN UNCHANGED chat
     ELSE chat' = [chat EXCEPT !.selectedFiles = <<>>, !.text = value]
  /\ did' = [op |-> "handleInputChange", arg |-> value]
  /\ UNCHANGED <<sends, storeVars>>

\* resetFiles()
ResetFiles ==
  /\ Quiet
  /\ IF chat.isSending
     THEN UNCHANGED chat
     ELSE chat' = [chat EXCEPT !.selectedFiles = <<>>]
  /\ did' = [op |-> "resetFiles", arg |-> <<>>]
  /\ UNCHANGED <<sends, storeVars>>

\* removeFile(id)
RemoveFile(id) ==
  /\ Quiet
  /\ chat' = [chat EXCEPT !.selectedFiles = SelectSeq(@, LAMBDA x : x.id # id)]
  /\ did' = [op |-> "removeFile", arg |-> <<id>>]
  /\ UNCHANGED <<sends, storeVars>>

\* The files of the user: name, size and lastModified
File(name, size, lastModified) ==
  [name |-> name, size |-> size, lastModified |-> lastModified]

\* File number i of a folder of files that differ in their size only
Numbered(i) == File(<<"f">>, i, 0)

\* The files from number a to number b, in order
FilesFromTo(a, b) == [i \in 1..(b - a + 1) |-> Numbered(a + i - 1)]

\* Selections of few files: none, one, and one twice before another
FewFiles ==
  { <<>>,
    <<File(<<"f">>, 1, 0)>>,
    <<File(<<"f">>, 1, 0), File(<<"f">>, 1, 0), File(<<"g">>, 1, 0)>> }

\* Selections of many files: none, all but one of MAX_FILES files, files
\* selected before with files that differ in one of name, size and
\* lastModified, and more files than MAX_FILES at once
ManyFiles ==
  { <<>>,
    FilesFromTo(1, MAX_FILES - 1),
    <<Numbered(MAX_FILES - 1), Numbered(MAX_FILES), Numbered(MAX_FILES),
      File(<<"f">>, MAX_FILES, 1), File(<<"g">>, MAX_FILES, 0),
      File(<<"f", "_", "_", "2">>, 0, 0)>>,
    FilesFromTo(1, MAX_FILES + 2) }

\* What the user types
ChatTexts == {<<>>, <<" ">>, <<"a">>, <<" ", "a", " ">>}

\* The ids of the files that the user removes when many are selected
RemovedIds == {1, 2, MAX_FILES}

\* What onSend does: it returns a promise, returns nothing, or throws
OnSendKinds == {"promise", "void", "throws"}

\* ChatInput with few files: every handler, two calls of handleSend
NextChat ==
  \/ \E c \in SendCalls : \E key \in {"Enter", "a"} : \E isComposing \in BOOLEAN :
       \E onSend \in OnSendKinds : OnKeyDown(c, key, isComposing, onSend)
  \/ \E c \in SendCalls : \E onSend \in OnSendKinds : Click(c, onSend)
  \/ \E c \in SendCalls : \E outcome \in {"resolved", "rejected"} : Settle(c, outcome)
  \/ \E c \in SendCalls : Resume(c)
  \/ \E c \in SendCalls : QueuedMicrotask(c)
  \/ \E files \in FewFiles : HandleFileChange(files)
  \/ \E value \in ChatTexts : HandleInputChange(value)
  \/ ResetFiles
  \/ \E id \in 0..3 : RemoveFile(id)

SpecChat == Init /\ [][NextChat]_vars

\* The event loop runs every queued microtask
SpecChatFair ==
  SpecChat /\ \A c \in SendCalls : WF_vars(Resume(c)) /\ WF_vars(QueuedMicrotask(c))

\* ChatInput with many files and an onSend that returns no promise:
\* selections, removals of one file, resets and sends
NextSelect ==
  \/ \E files \in ManyFiles : HandleFileChange(files)
  \/ \E id \in RemovedIds : RemoveFile(id)
  \/ ResetFiles
  \/ \E onSend \in {"void", "throws"} : Click(1, onSend)
  \/ Resume(1)
  \/ QueuedMicrotask(1)

SpecSelect == Init /\ [][NextSelect]_vars

----------------------------------------------------------------------------
(* ChatInput: the send lock *)

\* C37: whatever the order of the Enter keys and of the clicks on the send
\* button, onSend is not called while an onSend called before has not
\* settled: at most one call of handleSend stands at its await, a step that
\* calls onSend starts from a state where none does and leaves the others
\* where they were, and a call of handleSend calls onSend at most once.
C37_SendLock ==
  [][/\ \A c, d \in SendCalls :
          (sends[c].pc = "await" /\ sends[d].pc = "await") => c = d
     /\ \A c \in SendCalls :
          (sends[c].pc = "idle" /\ sends'[c].pc \in {"await", "resumed"})
            => /\ \A d \in SendCalls : sends[d].pc = "idle"
               /\ \A d \in SendCalls \ {c} : sends'[d] = sends[d]
     /\ \A c \in SendCalls :
          sends[c].pc \in {"await", "resumed", "microtask"}
            => sends'[c].pc # "await" \/ sends'[c] = sends[c]]_vars

\* onSend has not settled, and an Enter key or a click that came meanwhile
\* found the lock taken
C37_Witness ==
  /\ \E c \in SendCalls : sends[c].pc = "await"
  /\ did = [op |-> "handleSend", arg |-> <<"locked">>]
  /\ chat.sendingRef

----------------------------------------------------------------------------
(* ChatInput: the selected files *)

\* The files of the entries, as a set
Selected(entries) == {entries[i].file : i \in 1..Len(entries)}

\* C38: after any selections, removals, resets and sends the list of the
\* selected files has at most MAX_FILES entries and no two of them have the
\* same name, size and lastModified; a selection keeps the entries selected
\* before in place and appends files of the selection only, none that was
\* selected before and none twice, as many as are new and fit.
C38_SelectedFiles ==
  [][LET prev == chat.selectedFiles
         next == chat'.selectedFiles
         new == {did'.arg[i] : i \in 1..Len(did'.arg)} \ Selected(prev)
     IN /\ Len(prev) <= MAX_FILES
        /\ \A i, j \in 1..Len(prev) : prev[i].file = prev[j].file => i = j
        /\ (did'.op = "handleFileChange" /\ sends' = sends)
             => /\ Len(next) >= Len(prev)
                /\ SubSeq(next, 1, Len(prev)) = prev
                /\ \A i \in (Len(prev) + 1)..Len(next) : next[i].file \in new
                /\ \A i, j \in 1..Len(next) : next[i].file = next[j].file => i = j
                /\ Len(next) = IF Len(prev) + Cardinality(new) <= MAX_FILES
                               THEN Len(prev) + Cardinality(new)
                               ELSE MAX_FILES]_vars

\* MAX_FILES files are selected after a selection that held a file selected
\* before and a file that did not fit
C38_Witness ==
  /\ did.op = "handleFileChange"
  /\ Len(chat.selectedFiles) = MAX_FILES
  /\ \E i \in 1..Len(did.arg) : did.arg[i] \notin Selected(chat.selectedFiles)
  /\ \E i \in 1..Len(did.arg) :
       /\ did.arg[i] = chat.selectedFiles[MAX_FILES].file
       /\ \E j \in 1..(i - 1) : did.arg[j] = chat.selectedFiles[MAX_FILES - 1].file
  /\ \E f \in Selected(chat.selectedFiles) : \A i \in 1..Len(did.arg) : did.arg[i] # f

----------------------------------------------------------------------------
(* ChatInput: the release of the send lock *)

\* C39: a call of handleSend that took the lock releases it once onSend has
\* settled, resolved or rejected: sendingRef.current and isSending are false
\* then and the call is over; handleSend clears the selected files and the
\* text only after an onSend that resolved, the files and the text after a
\* send of files, the text after a send of text.
C39_LockReleased ==
  /\ \A c \in SendCalls :
       (sends[c].pc \in {"resumed", "microtask"})
         ~> (~chat.sendingRef /\ ~chat.isSending /\ sends[c].pc = "idle")
  /\ [][\A c \in SendCalls :
          sends'[c] # sends[c]
            => IF sends[c].pc = "resumed" /\ sends[c].outcome = "resolved"
               THEN /\ chat'.text = <<>>
                    /\ chat'.selectedFiles =
                         IF sends[c].payload.kind = "files" THEN <<>>
                         ELSE chat.selectedFiles
               ELSE /\ chat'.text = chat.text
                    /\ chat'.selectedFiles = chat.selectedFiles]_vars

\* The lock is free again after an onSend that rejected, and what was to be
\* sent is still there
C39_Witness ==
  /\ did = [op |-> "released", arg |-> <<"rejected">>]
  /\ ~chat.sendingRef /\ ~chat.isSending
  /\ \A c \in SendCalls : sends[c].pc = "idle"
  /\ Len(chat.selectedFiles) > 0 \/ Trim(chat.text) # <<>>

====
